---- MODULE Spec2Model ----
(***************************************************************************)
(* Model of the evaluation core of HATS:                                   *)
(*   src/Evaluation/eval_detection_gentime.py                              *)
(*     compute_average_precision_detection  (greedy tIoU matcher with a    *)
(*     per-threshold lock table, latency bookkeeping, aggregation).        *)
(*                                                                         *)
(* Arrays are functions over 0..n-1, as in the source (0-based indices,    *)
(* lock value -1 = unlocked).  Floats are modelled exactly: times are      *)
(* integers, a possibly non-finite float is a record [fin, val], a tIoU    *)
(* and a threshold are fractions <<numerator, denominator>>.               *)
(***************************************************************************)
EXTENDS Integers, Sequences, FiniteSets, TLC

(* ------------------------------ bounds -------------------------------- *)
MaxGT == 2
MaxPred == 2
MaxThr == 2

(* --------------------------- input domains ---------------------------- *)
Videos == {"v1", "v2"}

\* a float that may be NaN/Inf: fin = FALSE stands for every non-finite value
Finite(v) == [fin |-> TRUE, val |-> v]
NonFinite == [fin |-> FALSE, val |-> 0]

\* ground-truth segments (t-start, t-end); the last one has a non-finite end
\* tIoU of [0,4] with the three: 1, 1/2, 0; of [0,2]: 1/2, 1, 0
GtSegments == {<<0, Finite(4)>>, <<0, Finite(2)>>, <<0, NonFinite>>}
PredSegments == {<<0, 4>>, <<0, 2>>}
Scores == {1, 2}
Gentimes == {Finite(5), NonFinite}
\* tIoU thresholds as fractions: 0, 1/2, 3/4
ThrSet == {<<0, 1>>, <<1, 2>>, <<3, 4>>}

GTRecords ==
    { [video |-> v, ts |-> s[1], te |-> s[2]] : v \in Videos, s \in GtSegments }
PredRecords ==
    { [video |-> v, ts |-> s[1], te |-> s[2], score |-> sc, gentime |-> g] :
        v \in Videos, s \in PredSegments, sc \in Scores, g \in Gentimes }

Frames(R, n) == UNION { [0..(k-1) -> R] : k \in 0..n }
Len0(f) == Cardinality(DOMAIN f)

VARIABLES
    pc,              \* position in compute_average_precision_detection
    ground_truth,    \* data frame of the class's ground truth (input)
    prediction,      \* data frame of the class's predictions, input order
    tiou_thresholds, \* array of thresholds (input)
    sort_idx,        \* prediction['score'].values.argsort()[::-1]
    idx,             \* next row of the score-sorted predictions
    lock_gt,         \* lock_gt[tidx][g]: -1 or the prediction that claimed g
    tp, fp,          \* tp[tidx][idx], fp[tidx][idx]
    timediff,        \* timediff[tidx][idx]
    ap, tdiff, cnt_tp, \* the three returned vectors
    walked,          \* walked[tidx]: the jdx the last walk of lines 253-270 examined
    solo             \* solo[k]: the same pass run with the one threshold k

\* the state of main.py (eval_map_nms, eval_map_supnet, test_online); pc and
\* idx are shared: idx is the frame index there
VARIABLES
    video_list,        \* dataset.video_list
    vpos,              \* position of video_name in video_list (1-based)
    video,             \* duration, video_time and outputs of video_name
    result_dict,       \* result_dict, as the list of (video_name, proposals)
    proposal_dict,     \* the pool (eval_map_nms) or the accepted set
    proposal_anc_dict, \* the frame's candidates, after line 515/689 suppressed
    cls_anc, reg_anc,  \* the frame's classifier and regressor outputs
    conf_queue,        \* conf_queue / sup_queue: the confidence window
    suppress_conf,     \* what the suppression network returned for the frame
    total_frames,      \* test_online: the frames processed so far
    history,           \* per frame of the video: what the step saw and wrote
    twin               \* twin[d]: the same video with other outputs after frame d

\* the state of an ANETdetection object and of its methods __init__,
\* _import_ground_truth, _import_prediction, wrapper_compute_average_precision
\* and evaluate
VARIABLES
    evaluator,         \* "none", "init" (in __init__) or "built"
    subset,            \* self.subset
    blocked_videos,    \* self.blocked_videos
    data,              \* the JSON object json.load returned
    activity_index,    \* the dict, as its items in insertion order
    cidx,              \* the counter of _import_ground_truth
    lists,             \* video_lst, t_start_lst, ... as one list of rows
    vnum, anum,        \* positions of the two nested loops (1-based)
    self_ground_truth, \* self.ground_truth
    self_prediction,   \* self.prediction
    cpos,              \* the wrapper's loop: items of activity_index done
    w_ap, w_tdiff, w_cnt_tp, \* the wrapper's matrices ap, tdiff, cnt_tp [tidx][cidx]
    final_tdiff,       \* final_tdiff of the wrapper
    self_ap, self_tdiff \* self.ap, self.tdiff

objVars == <<evaluator, subset, blocked_videos, data, activity_index, cidx,
             lists, vnum, anum, self_ground_truth, self_prediction,
             cpos, w_ap, w_tdiff, w_cnt_tp, final_tdiff, self_ap, self_tdiff>>

evalVars == <<ground_truth, prediction, tiou_thresholds, sort_idx,
              lock_gt, tp, fp, timediff, ap, tdiff, cnt_tp, walked, solo,
              objVars>>

mainVars == <<video_list, vpos, video, result_dict, proposal_dict,
              proposal_anc_dict, cls_anc, reg_anc, conf_queue, suppress_conf,
              total_frames, history, twin>>

vars == <<pc, idx, evalVars, mainVars>>

\* main.py is not running
MainIdle ==
    /\ video_list = <<>> /\ vpos = 0 /\ video = <<>> /\ result_dict = <<>>
    /\ proposal_dict = <<>> /\ proposal_anc_dict = <<>>
    /\ cls_anc = <<>> /\ reg_anc = <<>> /\ conf_queue = <<>>
    /\ suppress_conf = <<>> /\ total_frames = 0 /\ history = <<>> /\ twin = <<>>

\* no ANETdetection object
ObjIdle ==
    /\ evaluator = "none" /\ subset = <<>> /\ blocked_videos = <<>>
    /\ data = <<>> /\ activity_index = <<>> /\ cidx = 0 /\ lists = <<>>
    /\ vnum = 0 /\ anum = 0
    /\ self_ground_truth = <<>> /\ self_prediction = <<>>
    /\ cpos = 0 /\ w_ap = <<>> /\ w_tdiff = <<>> /\ w_cnt_tp = <<>>
    /\ final_tdiff = <<>> /\ self_ap = <<>> /\ self_tdiff = <<>>

\* compute_average_precision_detection has no frame: its arguments and
\* locals do not exist
NoCall ==
    /\ ground_truth = <<>> /\ prediction = <<>> /\ sort_idx = <<>>
    /\ lock_gt = <<>> /\ tp = <<>> /\ fp = <<>> /\ timediff = <<>>
    /\ ap = <<>> /\ tdiff = <<>> /\ cnt_tp = <<>>
    /\ walked = <<>> /\ solo = <<>>

\* what the wrapper and evaluate leave alone
loadVars == <<evaluator, subset, blocked_videos, data, activity_index, cidx,
              lists, vnum, anum, self_ground_truth, self_prediction>>
callVars == <<ground_truth, prediction, sort_idx, lock_gt, tp, fp, timediff,
              ap, tdiff, cnt_tp, walked, solo>>

\* compute_average_precision_detection is not running
EvalIdle ==
    /\ ground_truth = <<>> /\ prediction = <<>> /\ tiou_thresholds = <<>>
    /\ sort_idx = <<>>
    /\ lock_gt = <<>> /\ tp = <<>> /\ fp = <<>> /\ timediff = <<>>
    /\ ap = <<>> /\ tdiff = <<>> /\ cnt_tp = <<>>
    /\ walked = <<>>
    /\ solo = <<>>
    /\ ObjIdle

(* ------------------------- numeric helpers ---------------------------- *)
Max2(a, b) == IF a >= b THEN a ELSE b
Min2(a, b) == IF a <= b THEN a ELSE b

\* fractions with positive denominators
FracLess(a, b) == a[1] * b[2] < b[1] * a[2]
FracGeq(a, b) == ~FracLess(a, b)

\* np.nan_to_num(x, nan=0.0, posinf=0.0, neginf=0.0)
nan_to_num(x) == IF x.fin THEN x.val ELSE 0

\* utils.segment_iou for one candidate: overlap/union if union > 0 else 0.
\* A non-finite end point makes the union non-finite or the ratio 0/NaN: 0.
segment_iou(p, g) ==
    IF ~g.te.fin THEN <<0, 1>>
    ELSE LET overlap == Max2(0, Min2(p.te, g.te.val) - Max2(p.ts, g.ts))
             union == (p.te - p.ts) + (g.te.val - g.ts) - overlap
         IN  IF union > 0 THEN <<overlap, union>> ELSE <<0, 1>>

\* all bijections 0..n-1 -> D
Perms(D) ==
    LET n == Cardinality(D)
    IN  { f \in [0..(n-1) -> D] : \A i, j \in 0..(n-1) : i # j => f[i] # f[j] }

Reversed(p) == [i \in DOMAIN p |-> p[Len0(p) - 1 - i]]

\* the results numpy's argsort may give for integer keys: an ascending order,
\* the order among equal keys being the sort kind's business (the default
\* kind is not stable)
ArgsortInt(keys) ==
    { p \in Perms(DOMAIN keys) :
        \A i \in DOMAIN keys : i + 1 \in DOMAIN keys => keys[p[i]] <= keys[p[i+1]] }

\* the same for an array of fractions (tiou_arr)
ArgsortFrac(keys) ==
    { p \in Perms(DOMAIN keys) :
        \A i \in DOMAIN keys :
            i + 1 \in DOMAIN keys => ~FracLess(keys[p[i+1]], keys[p[i]]) }

\* a mutation of ScoreOrder: the [::-1] forgotten
ScoreOrderAscending(scores) == ArgsortInt(scores)

\* line 217: prediction['score'].values.argsort()[::-1]
ScoreOrder(scores) == { Reversed(p) : p \in ArgsortInt(scores) }

\* line 251: tiou_arr.argsort()[::-1]
TiouOrderFirstOnly(tiou_arr) == { [j \in DOMAIN tiou_arr |-> 0] }

\* line 251: tiou_arr.argsort()[::-1]
TiouOrder(tiou_arr) == { Reversed(p) : p \in ArgsortFrac(tiou_arr) }

\* line 218: prediction.loc[sort_idx].reset_index(drop=True)
Sorted(pred, order) == [i \in DOMAIN pred |-> pred[order[i]]]

\* the score-sorted data frame the loop of line 229 iterates
sorted_prediction == Sorted(prediction, sort_idx)

\* lines 226, 232, 237: the rows of ground_truth of one video, in frame order;
\* the result maps the group's row number to the row's original index
\* (the 'index' column reset_index() adds).  Empty: get_group raises KeyError.
GroupIndex(gt, vid) ==
    LET S == { g \in DOMAIN gt : gt[g].video = vid }
    IN  CHOOSE f \in Perms(S) : \A i, j \in DOMAIN f : i < j => f[i] < f[j]

ZeroVector(D) == [i \in D |-> 0]
ZeroMatrix(R, C) == [r \in R |-> [c \in C |-> 0]]

\* lines 238-239: segment_iou of the prediction against the group's rows
TiouArr(p, gt, gindex) == [j \in DOMAIN gindex |-> segment_iou(p, gt[gindex[j]])]

(* ----------------------- the matching loop body ----------------------- *)
\* a mutation of IsLocked: the lock of prediction 0 is not seen
IsLockedOffByOne(lockrow, g) == lockrow[g] > 0

\* a mutation of IsLocked: the test of line 257 left out
IsLockedNever(lockrow, g) == FALSE

\* line 257: lock_gt[tidx, this_gt.loc[jdx]['index']] >= 0
IsLocked(lockrow, g) == lockrow[g] >= 0

\* a mutation of BelowThreshold: the test of line 254 left out
BelowThresholdNever(tiou, thr) == FALSE

\* a mutation of BelowThreshold: a tIoU equal to the threshold is rejected
BelowOrEqualThreshold(tiou, thr) == ~FracLess(thr, tiou)

\* line 254: tiou_arr[jdx] < tiou_thr
BelowThreshold(tiou, thr) == FracLess(tiou, thr)

\* a mutation of LockRow: one lock row shared by all thresholds
LockRowShared(tidx) == 0

\* lines 257, 269: the row of the lock table threshold tidx uses
LockRow(tidx) == tidx

\* lines 253-270: the walk over tiou_sorted_idx from position k on; the result
\* is what the walk leaves in tp[tidx, idx], fp[tidx, idx] and the jdx it
\* locked (-1: none), with the list of the jdx the loop took, in order
RECURSIVE Walk(_, _, _, _, _, _)
Walk(k, order, tiou_arr, thr, lockrow, gindex) ==
    IF k >= Len0(order) THEN [tp |-> 0, fp |-> 0, jdx |-> -1, seen |-> <<>>]
    ELSE LET jdx == order[k]
         IN  IF BelowThreshold(tiou_arr[jdx], thr)
                 THEN [tp |-> 0, fp |-> 1, jdx |-> -1, seen |-> <<jdx>>]
             ELSE IF IsLocked(lockrow, gindex[jdx])
                 THEN LET rest == Walk(k + 1, order, tiou_arr, thr, lockrow, gindex)
                      IN  [rest EXCEPT !.seen = <<jdx>> \o rest.seen]
             ELSE [tp |-> 1, fp |-> 0, jdx |-> jdx, seen |-> <<jdx>>]

\* a mutation of FallThroughFp: lines 272-273 left out
FallThroughFpMissing(w) == w.fp

\* lines 272-273: if fp[tidx, idx] == 0 and tp[tidx, idx] == 0: fp[tidx, idx] = 1
FallThroughFp(w) == IF w.fp = 0 /\ w.tp = 0 THEN 1 ELSE w.fp

\* lines 242-244: gentime of the prediction, NaN/Inf replaced by 0
GentimePred(p) == IF p.gentime.fin THEN p.gentime.val ELSE 0

\* a mutation of TimeDiff: lines 242-249 left out, only the difference checked
\* (a non-finite operand makes the difference non-finite, which becomes 0)
TimeDiffLateSanitize(p, g) ==
    IF p.gentime.fin /\ g.te.fin THEN p.gentime.val - g.te.val ELSE 0

\* lines 246-249, 263-266: gentime_pred - gentime_gt_arr[jdx]; the operands are
\* finite here, so is their difference (time values far from the float range)
TimeDiff(p, g) == GentimePred(p) - nan_to_num(g.te)

\* lines 252-273 for the thresholds tidx, tidx+1, ...: st is the record of the
\* arrays lock_gt, tp, fp, timediff as they stand
RECURSIVE ThresholdLoop(_, _, _, _, _, _, _, _, _)
ThresholdLoop(tidx, thrs, st, i, gt, p, gindex, tiou_arr, order) ==
    IF tidx >= Len0(thrs) THEN st
    ELSE LET row == LockRow(tidx)
             w == Walk(0, order, tiou_arr, thrs[tidx], st.lock_gt[row], gindex)
             hit == w.tp = 1
             g == IF hit THEN gindex[w.jdx] ELSE -1
             next ==
               [lock_gt |-> IF hit THEN [st.lock_gt EXCEPT ![row][g] = i]
                                   ELSE st.lock_gt,
                tp |-> [st.tp EXCEPT ![tidx][i] = w.tp],
                fp |-> [st.fp EXCEPT ![tidx][i] = FallThroughFp(w)],
                timediff |-> IF hit
                               THEN [st.timediff EXCEPT ![tidx][i] = TimeDiff(p, gt[g])]
                               ELSE st.timediff,
                walked |-> [st.walked EXCEPT ![tidx] = w.seen]]
         IN  ThresholdLoop(tidx + 1, thrs, next, i, gt, p, gindex, tiou_arr, order)

\* a mutation of NoGroup: fp[0, idx] = 1 for fp[:, idx] = 1
NoGroupFirstRow(thrs, st, i) == [st EXCEPT !.fp[0][i] = 1]

\* lines 233-235: except: fp[:, idx] = 1; continue
NoGroup(thrs, st, i) ==
    [st EXCEPT !.fp = [t \in DOMAIN thrs |-> [st.fp[t] EXCEPT ![i] = 1]],
               !.walked = [t \in DOMAIN thrs |-> <<>>]]

\* lines 214, 221-223: the arrays before the loop
InitArrays(thrs, gt, pred) ==
    [lock_gt |-> [t \in DOMAIN thrs |-> [g \in DOMAIN gt |-> -1]],
     tp |-> ZeroMatrix(DOMAIN thrs, DOMAIN pred),
     fp |-> ZeroMatrix(DOMAIN thrs, DOMAIN pred),
     timediff |-> ZeroMatrix(DOMAIN thrs, DOMAIN pred),
     walked |-> [t \in DOMAIN thrs |-> <<>>]]

\* the one-threshold list of threshold k
Single(thrs, k) == [t \in {0} |-> thrs[k]]

(* --------------------------- aggregation ------------------------------ *)
RECURSIVE CumSumAt(_, _)
CumSumAt(row, i) == IF i < 0 THEN 0 ELSE row[i] + CumSumAt(row, i - 1)

\* a mutation of cumsum: the running sum left out
cumsumNone(row) == row

\* np.cumsum
cumsum(row) == [i \in DOMAIN row |-> CumSumAt(row, i)]

\* x[-1]
LastOf(x) == x[Len0(x) - 1]

RECURSIVE Fact(_)
Fact(n) == IF n <= 1 THEN 1 ELSE n * Fact(n - 1)

RECURSIVE MaxFrom(_, _)
MaxFrom(f, i) ==
    IF i = Len0(f) - 1 THEN f[i] ELSE Max2(f[i], MaxFrom(f, i + 1))

\* lines 284-291 with utils.interpolated_prec_rec: the area under the
\* precision envelope (precision made non-increasing from the right) over
\* recall, as the fraction <<numerator, npos * n!>>; prec = tp/(tp+fp) with
\* 0/0 -> 0, rec = tp/npos with x/0 -> 0
interpolated_prec_rec(this_tp, this_fp, npos) ==
    LET n == Len0(this_tp)
        F == Fact(n)
        prec == [j \in DOMAIN this_tp |->
                   IF this_tp[j] + this_fp[j] = 0 THEN 0
                   ELSE (this_tp[j] * F) \div (this_tp[j] + this_fp[j])]
        step == [j \in DOMAIN this_tp |->
                   (this_tp[j] - (IF j = 0 THEN 0 ELSE this_tp[j-1])) * MaxFrom(prec, j)]
    IN  IF npos = 0 \/ n = 0 THEN <<0, 1>>
        ELSE <<CumSumAt(step, n - 1), npos * F>>

\* a mutation of ClassTdiff: the first cumulative sum instead of the last
ClassTdiffFirst(this_tdiff, this_tp) ==
    IF Len0(this_tdiff) = 0 \/ LastOf(this_tp) = 0 THEN 0 ELSE this_tdiff[0]

\* lines 294-301: the latency value of one threshold
ClassTdiff(this_tdiff, this_tp) ==
    IF Len0(this_tdiff) = 0 \/ LastOf(this_tp) = 0 THEN 0 ELSE LastOf(this_tdiff)

\* a mutation of IsEmptyInput: 'and' for 'or'
IsEmptyInputBoth(pred, gt) == Len0(pred) = 0 /\ Len0(gt) = 0

\* line 207: len(prediction) == 0 or len(ground_truth) == 0
IsEmptyInput(pred, gt) == Len0(pred) = 0 \/ Len0(gt) = 0

(* ------------------------------ state --------------------------------- *)
St == [lock_gt |-> lock_gt, tp |-> tp, fp |-> fp, timediff |-> timediff,
       walked |-> walked]

Init ==
    /\ pc = "start"
    /\ ground_truth \in Frames(GTRecords, MaxGT)
    /\ prediction \in Frames(PredRecords, MaxPred)
    /\ tiou_thresholds \in UNION { [0..(m-1) -> ThrSet] : m \in 1..MaxThr }
    /\ sort_idx = <<>>
    /\ idx = 0
    /\ lock_gt = <<>> /\ tp = <<>> /\ fp = <<>> /\ timediff = <<>>
    /\ ap = <<>> /\ tdiff = <<>> /\ cnt_tp = <<>>
    /\ walked = <<>>
    /\ solo = <<>>
    /\ ObjIdle
    /\ MainIdle

\* lines 206-211: an empty class returns zero vectors
ReturnEmpty ==
    /\ pc = "start"
    /\ IsEmptyInput(prediction, ground_truth)
    /\ ap' = [t \in DOMAIN tiou_thresholds |-> <<0, 1>>]
    /\ tdiff' = ZeroVector(DOMAIN tiou_thresholds)
    /\ cnt_tp' = ZeroVector(DOMAIN tiou_thresholds)
    /\ pc' = "done"
    /\ UNCHANGED <<ground_truth, prediction, tiou_thresholds, sort_idx, idx,
                   lock_gt, tp, fp, timediff, walked, solo>>
    /\ UNCHANGED <<mainVars, objVars>>

\* lines 213-226: lock table, score sort, tp/fp/timediff arrays
SortAndInit ==
    /\ pc = "start"
    /\ ~IsEmptyInput(prediction, ground_truth)
    /\ \E order \in ScoreOrder([i \in DOMAIN prediction |-> prediction[i].score]) :
          sort_idx' = order
    /\ LET a == InitArrays(tiou_thresholds, ground_truth, prediction)
       IN  /\ lock_gt' = a.lock_gt /\ tp' = a.tp /\ fp' = a.fp
           /\ timediff' = a.timediff /\ walked' = a.walked
    /\ solo' = [k \in DOMAIN tiou_thresholds |->
                  InitArrays(Single(tiou_thresholds, k), ground_truth, prediction)]
    /\ idx' = 0
    /\ pc' = "match"
    /\ UNCHANGED <<ground_truth, prediction, tiou_thresholds, ap, tdiff, cnt_tp>>
    /\ UNCHANGED <<mainVars, objVars>>

SetArrays(a) ==
    /\ lock_gt' = a.lock_gt /\ tp' = a.tp /\ fp' = a.fp /\ timediff' = a.timediff
    /\ walked' = a.walked

\* lines 229-235: the prediction's video has no ground truth (KeyError caught)
MatchNoGroup ==
    /\ pc = "match"
    /\ idx < Len0(prediction)
    /\ Len0(GroupIndex(ground_truth, sorted_prediction[idx].video)) = 0
    /\ SetArrays(NoGroup(tiou_thresholds, St, idx))
    /\ solo' = [k \in DOMAIN tiou_thresholds |->
                  NoGroup(Single(tiou_thresholds, k), solo[k], idx)]
    /\ idx' = idx + 1
    /\ UNCHANGED <<pc, ground_truth, prediction, tiou_thresholds, sort_idx,
                   ap, tdiff, cnt_tp>>
    /\ UNCHANGED <<mainVars, objVars>>

\* lines 229-273: one prediction against the ground truth of its video, at
\* every threshold
MatchGroup ==
    /\ pc = "match"
    /\ idx < Len0(prediction)
    /\ \E p \in { sorted_prediction[idx] } :
       \E gindex \in { GroupIndex(ground_truth, p.video) } :
       \E tiou_arr \in { TiouArr(p, ground_truth, gindex) } :
           /\ Len0(gindex) > 0
           /\ \E order \in TiouOrder(tiou_arr) :
              \E a \in { ThresholdLoop(0, tiou_thresholds, St, idx,
                                        ground_truth, p, gindex, tiou_arr, order) } :
                /\ SetArrays(a)
                /\ solo' = [k \in DOMAIN tiou_thresholds |->
                              ThresholdLoop(0, Single(tiou_thresholds, k), solo[k],
                                            idx, ground_truth, p, gindex, tiou_arr,
                                            order)]
    /\ idx' = idx + 1
    /\ UNCHANGED <<pc, ground_truth, prediction, tiou_thresholds, sort_idx,
                   ap, tdiff, cnt_tp>>
    /\ UNCHANGED <<mainVars, objVars>>

\* lines 275-305: per threshold, AP, latency value and true-positive count;
\* this_tp[-1] of an empty array raises IndexError
Aggregate ==
    /\ pc = "match"
    /\ idx = Len0(prediction)
    /\ LET npos == Len0(ground_truth)
           n == Len0(prediction)
       IN  IF n = 0
           THEN /\ pc' = "error"
                /\ UNCHANGED <<ap, tdiff, cnt_tp>>
           ELSE /\ pc' = "done"
                /\ ap' = [t \in DOMAIN tiou_thresholds |->
                            interpolated_prec_rec(cumsum(tp[t]), cumsum(fp[t]), npos)]
                /\ tdiff' = [t \in DOMAIN tiou_thresholds |->
                               ClassTdiff(cumsum(timediff[t]), cumsum(tp[t]))]
                /\ cnt_tp' = [t \in DOMAIN tiou_thresholds |-> LastOf(cumsum(tp[t]))]
    /\ UNCHANGED <<ground_truth, prediction, tiou_thresholds, sort_idx, idx,
                   lock_gt, tp, fp, timediff, walked, solo>>
    /\ UNCHANGED <<mainVars, objVars>>

Next == ReturnEmpty \/ SortAndInit \/ MatchNoGroup \/ MatchGroup \/ Aggregate

Spec == Init /\ [][Next]_vars

\* inputs with finite times, and two thresholds (the termination check and
\* the wrapper draw from these)
LiveGT == { r \in GTRecords : r.te.fin }
LivePred == { r \in PredRecords : r.gentime.fin }
LiveThr == {<<1, 2>>, <<3, 4>>}

InitLive ==
    /\ pc = "start"
    /\ ground_truth \in Frames(LiveGT, MaxGT)
    /\ prediction \in Frames(LivePred, MaxPred)
    /\ tiou_thresholds \in UNION { [0..(m-1) -> LiveThr] : m \in 1..MaxThr }
    /\ sort_idx = <<>>
    /\ idx = 0
    /\ lock_gt = <<>> /\ tp = <<>> /\ fp = <<>> /\ timediff = <<>>
    /\ ap = <<>> /\ tdiff = <<>> /\ cnt_tp = <<>>
    /\ walked = <<>>
    /\ solo = <<>>
    /\ ObjIdle
    /\ MainIdle

\* the function is straight-line sequential code: whenever a next statement
\* exists, it is executed
SpecLive == InitLive /\ [][Next]_vars /\ WF_vars(Next)

(* ------------------------------ claims -------------------------------- *)
T == DOMAIN tiou_thresholds
G == DOMAIN ground_truth
P == DOMAIN prediction

\* the arrays of lines 214-223 exist
HasArrays == DOMAIN tp = T

\* tIoU of score-sorted prediction i with ground-truth instance g
Tiou(i, g) == segment_iou(sorted_prediction[i], ground_truth[g])

SameVideo(i, g) == sorted_prediction[i].video = ground_truth[g].video

\* g is a candidate of prediction i at threshold t: same video, tIoU >= t
Candidate(t, i, g) ==
    SameVideo(i, g) /\ FracGeq(Tiou(i, g), tiou_thresholds[t])

\* the instances whose lock entry at t names prediction i
Holder(t, i) == { g \in G : lock_gt[t][g] = i }

\* C1: at every threshold t, after any prefix of the score-sorted predictions,
\* each true positive holds the lock of exactly one ground-truth instance and
\* nobody else holds a lock: no instance is claimed by two true positives.
C1_AtMostOneClaim ==
    HasArrays =>
        \A t \in T :
            /\ \A i \in P : Cardinality(Holder(t, i)) = tp[t][i]
            /\ \A g \in G : lock_gt[t][g] >= 0 => tp[t][lock_gt[t][g]] = 1
            /\ Cardinality({ g \in G : lock_gt[t][g] >= 0 })
                 = Cardinality({ i \in P : tp[t][i] = 1 })

\* two predictions wanted the same instance; the first has it, the second is
\* a false positive
C1_Witness ==
    /\ HasArrays /\ idx = 2
    /\ \E t \in T, g \in G :
         /\ lock_gt[t][g] = 0 /\ Candidate(t, 1, g)
         /\ tp[t][1] = 0 /\ fp[t][1] = 1

\* C2: at every threshold exactly one of tp, fp is 1 for each processed
\* prediction (both are 0 before), so cumTP[i] + cumFP[i] = i + 1.
C2_TpXorFp ==
    HasArrays =>
        \A t \in T : \A i \in P :
            /\ tp[t][i] \in {0, 1} /\ fp[t][i] \in {0, 1}
            /\ i < idx => /\ tp[t][i] + fp[t][i] = 1
                          /\ cumsum(tp[t])[i] + cumsum(fp[t])[i] = i + 1
            /\ i >= idx => tp[t][i] = 0 /\ fp[t][i] = 0

\* matching finished with a true positive, and a false positive that walked
\* over all its candidates and found each locked
C2_Witness ==
    /\ pc = "done" /\ ~IsEmptyInput(prediction, ground_truth)
    /\ \E t \in T : \E i, j \in P :
         /\ tp[t][i] = 1 /\ fp[t][j] = 1
         /\ \A g \in G : SameVideo(j, g) => Candidate(t, j, g) /\ lock_gt[t][g] < j
         /\ \E g \in G : SameVideo(j, g)

\* the unlocked candidates of the prediction about to be processed
Avail(t) == { g \in G : Candidate(t, idx, g) /\ lock_gt[t][g] < 0 }

\* C3: a step that processes a prediction whose video has ground truth marks
\* it true positive iff an unlocked instance of its video has tIoU >= t; it
\* then locks an unlocked instance of highest tIoU and nothing else; otherwise
\* it marks it false positive and the lock row is unchanged.
C3_MatchRule ==
    [][ (pc = "match" /\ idx' = idx + 1 /\ \E g \in G : SameVideo(idx, g)) =>
        \A t \in T :
          IF Avail(t) # {}
          THEN /\ tp'[t][idx] = 1 /\ fp'[t][idx] = 0
               /\ \E g \in Avail(t) :
                    /\ lock_gt'[t] = [lock_gt[t] EXCEPT ![g] = idx]
                    /\ \A h \in G :
                         (SameVideo(idx, h) /\ lock_gt[t][h] < 0)
                            => FracGeq(Tiou(idx, g), Tiou(idx, h))
          ELSE /\ tp'[t][idx] = 0 /\ fp'[t][idx] = 1
               /\ lock_gt'[t] = lock_gt[t] ]_vars

\* the second prediction found its best instance locked and took the next one
C3_Witness ==
    /\ HasArrays /\ idx = 2
    /\ \E t \in T : \E g0, g1 \in G :
         /\ lock_gt[t][g0] = 0 /\ lock_gt[t][g1] = 1
         /\ FracLess(Tiou(1, g1), Tiou(1, g0))
         /\ Candidate(t, 1, g0)

Score(i) == sorted_prediction[i].score

\* C4 as claimed: the processing order is the stable descending sort (equal
\* scores keep their input order).
C4_StableOrder ==
    HasArrays =>
        \A i, j \in P :
            i < j => \/ Score(i) > Score(j)
                     \/ Score(i) = Score(j) /\ sort_idx[i] < sort_idx[j]

\* C4 as amended: the processing order is a permutation of the input in
\* non-increasing score order (nothing said about equal scores), and of two
\* predictions competing for an instance the one processed first wins: when
\* prediction j holds g at t, every earlier candidate of g is a true positive
\* too (of another instance).
C4_DescendingOrder ==
    HasArrays =>
        /\ sort_idx \in Perms(P)
        /\ \A i, j \in P : i < j => Score(i) >= Score(j)
        /\ \A t \in T, g \in G, i, j \in P :
             (i < j /\ lock_gt[t][g] = j /\ Candidate(t, i, g)) => tp[t][i] = 1

\* two equal-score predictions competed for the only instance of their video
\* and the one that came second in the input has it
C4_Witness ==
    /\ HasArrays /\ idx = 2
    /\ Score(0) = Score(1) /\ sort_idx[0] = 1
    /\ \E t \in T, g \in G :
         /\ lock_gt[t][g] = 0 /\ Candidate(t, 1, g) /\ fp[t][1] = 1
         /\ \A h \in G : SameVideo(1, h) => h = g

\* C5: a lock entry that is set (>= 0) keeps its value in every later step of
\* the pass.
C5_LockMonotone ==
    [][ \A t \in DOMAIN lock_gt : \A g \in DOMAIN lock_gt[t] :
            lock_gt[t][g] >= 0 => lock_gt'[t][g] = lock_gt[t][g] ]_vars

\* an instance stayed locked by the first prediction while a later prediction
\* that had it as a candidate was processed
C5_Witness ==
    /\ pc = "done" /\ HasArrays
    /\ \E t \in T, g \in G, j \in P :
         j > 0 /\ lock_gt[t][g] = 0 /\ Candidate(t, j, g)

\* C6: each threshold's rows (tp, fp, latency, locks) are those of the pass
\* run with that threshold alone.
C6_ThresholdIndependence ==
    HasArrays =>
        \A k \in T :
            /\ solo[k].tp[0] = tp[k]
            /\ solo[k].fp[0] = fp[k]
            /\ solo[k].timediff[0] = timediff[k]
            /\ solo[k].lock_gt[0] = lock_gt[k]

\* an instance is locked by one prediction at one threshold and by another
\* prediction at another threshold
C6_Witness ==
    /\ pc = "done" /\ HasArrays
    /\ \E t1, t2 \in T, g \in G :
         /\ lock_gt[t1][g] >= 0 /\ lock_gt[t2][g] >= 0
         /\ lock_gt[t1][g] # lock_gt[t2][g]

NoGroundTruth(i) == \A g \in G : ~SameVideo(i, g)

\* C7: a prediction whose video has no ground truth is a false positive and
\* not a true positive at every threshold and holds no lock, the pass does
\* not fail, and the step that processes it changes no lock.
C7_NoGroundTruthVideo ==
    /\ [](HasArrays =>
            /\ pc # "error"
            /\ \A i \in P : (i < idx /\ NoGroundTruth(i)) =>
                  \A t \in T : fp[t][i] = 1 /\ tp[t][i] = 0 /\ Holder(t, i) = {})
    /\ [][ (pc = "match" /\ idx' = idx + 1 /\ NoGroundTruth(idx))
              => lock_gt' = lock_gt ]_vars

\* a prediction of a video without ground truth was processed after another
\* prediction had taken a lock
C7_Witness ==
    /\ HasArrays /\ idx = 2 /\ NoGroundTruth(1)
    /\ \E t \in T, g \in G : lock_gt[t][g] = 0

\* C8: with an empty ground-truth set or an empty prediction set the call
\* returns (never fails), and AP, latency and true-positive count are 0 at
\* every threshold.
C8_EmptyInput ==
    ((Len0(prediction) = 0 \/ Len0(ground_truth) = 0) /\ pc # "start") =>
        /\ pc = "done"
        /\ DOMAIN ap = T /\ DOMAIN tdiff = T /\ DOMAIN cnt_tp = T
        /\ \A t \in T : ap[t][1] = 0 /\ tdiff[t] = 0 /\ cnt_tp[t] = 0

\* predictions empty, ground truth at the bound, zero vectors returned
C8_Witness ==
    /\ pc = "done" /\ Len0(prediction) = 0 /\ Len0(ground_truth) = MaxGT
    /\ Len0(tiou_thresholds) = MaxThr /\ cnt_tp = ZeroVector(T)

\* a possibly non-finite float, non-finite replaced by 0
Sanitized(x) == IF x.fin THEN x.val ELSE 0

\* C9: a true positive's latency is its (sanitized) gentime minus the
\* (sanitized) t-end of the instance whose lock it holds; a false positive's
\* latency is 0.
C9_Latency ==
    HasArrays =>
        \A t \in T : \A i \in P :
            /\ tp[t][i] = 1 =>
                 \E g \in G :
                    /\ lock_gt[t][g] = i
                    /\ timediff[t][i] = Sanitized(sorted_prediction[i].gentime)
                                          - Sanitized(ground_truth[g].te)
            /\ tp[t][i] = 0 => timediff[t][i] = 0

\* one true positive with a non-finite gentime on an instance with a finite
\* end, another with a finite gentime on an instance with a non-finite end
C9_Witness ==
    /\ pc = "done" /\ HasArrays
    /\ \E t \in T : \E i, j \in P : \E g, h \in G :
         /\ lock_gt[t][g] = i /\ lock_gt[t][h] = j
         /\ ~sorted_prediction[i].gentime.fin /\ ground_truth[g].te.fin
         /\ sorted_prediction[j].gentime.fin /\ ~ground_truth[h].te.fin
         /\ timediff[t][i] < 0 /\ timediff[t][j] > 0

RECURSIVE SumOver(_, _)
SumOver(S, f) ==
    IF S = {} THEN 0
    ELSE LET x == CHOOSE y \in S : TRUE IN f[x] + SumOver(S \ {x}, f)

TruePositives(t) == { i \in P : tp[t][i] = 1 }

\* C10 as claimed: the class's latency value at a threshold is the mean of
\* its true positives' latencies (value * count = sum), 0 without any.
C10_ClassMean ==
    (pc = "done" /\ HasArrays) =>
        \A t \in T :
            LET n == Cardinality(TruePositives(t))
            IN  IF n = 0 THEN tdiff[t] = 0
                ELSE tdiff[t] * n = SumOver(TruePositives(t), timediff[t])

\* C10 as amended: the class's latency value at a threshold is the sum of its
\* true positives' latencies, not divided by their number (0 without any),
\* and the count returned with it is the number of true positives.
C10_ClassSum ==
    (pc = "done" /\ HasArrays) =>
        \A t \in T :
            /\ tdiff[t] = SumOver(TruePositives(t), timediff[t])
            /\ cnt_tp[t] = Cardinality(TruePositives(t))

\* two true positives with different non-zero latencies
C10_Witness ==
    /\ pc = "done" /\ HasArrays
    /\ \E t \in T :
         /\ cnt_tp[t] = 2
         /\ timediff[t][0] # 0 /\ timediff[t][1] # 0
         /\ timediff[t][0] # timediff[t][1]
         /\ tdiff[t] = timediff[t][0] + timediff[t][1]

One == <<1, 1>>

\* every ground-truth instance is matched at t and no false positive is
\* processed before a true positive
PerfectRanking(t) ==
    /\ cnt_tp[t] = Len0(ground_truth)
    /\ \A i, j \in P : (tp[t][i] = 1 /\ fp[t][j] = 1) => i < j

\* C11 as claimed: a class with a prediction whose video has no ground truth
\* has that prediction a false positive and AP < 1 at every threshold.
C11_AlwaysBelowOne ==
    (pc = "done" /\ HasArrays) =>
        \A i \in P : NoGroundTruth(i) =>
            \A t \in T : fp[t][i] = 1 /\ tp[t][i] = 0 /\ FracLess(ap[t], One)

\* C11 as amended: such a prediction is a false positive at every threshold,
\* and the AP of the class at a threshold is < 1 unless every ground-truth
\* instance is matched there and every true positive is processed before
\* every false positive, in which case the AP is exactly 1.
C11_BelowOneUnlessPerfect ==
    (pc = "done" /\ HasArrays) =>
        \A i \in P : NoGroundTruth(i) =>
            \A t \in T :
                /\ fp[t][i] = 1 /\ tp[t][i] = 0
                /\ IF PerfectRanking(t) THEN ap[t][1] = ap[t][2]
                   ELSE FracLess(ap[t], One)

\* a true positive, then a lower-ranked prediction of a video without ground
\* truth: AP is 1 at one threshold and below 1 at another
C11_Witness ==
    /\ pc = "done" /\ HasArrays /\ Len0(prediction) = 2
    /\ NoGroundTruth(1)
    /\ \E t, u \in T :
         /\ tp[t][0] = 1 /\ fp[t][1] = 1 /\ ap[t][1] = ap[t][2]
         /\ FracLess(ap[u], One)

(***************************************************************************)
(* src/main.py: the proposal decoder, the static suppression of            *)
(* eval_map_nms and the online refiner of eval_map_supnet / test_online.   *)
(* Python lists that are only appended to and iterated are sequences;      *)
(* arrays that are indexed are functions over 0..n-1.  Scores are float32  *)
(* values (integers here), which float() and the tensor store preserve.    *)
(***************************************************************************)
MaxFrames == 3
MaxPoolFrames == 2

\* an array from a tuple
Arr(s) == [i \in 0..(Len(s) - 1) |-> s[i + 1]]

\* opt['num_of_class'] (the last class is the background), opt['segment_size'],
\* opt['anchors'], opt['threshold'], opt['sup_threshold'], opt['soft_nms']
num_class == 3
unit_size == 2
anchors == Arr(<<1, 2>>)
threshold == 1
sup_threshold == 1
soft_nms == <<1, 2>>

\* dataset.label_name
label_name == Arr(<<"a", "b">>)

\* dataset.label_name.index(name)
LabelIndex(name) ==
    CHOOSE c \in DOMAIN label_name :
        /\ label_name[c] = name
        /\ \A e \in DOMAIN label_name : label_name[e] = name => c <= e

\* np.exp of a regressed log-length: the logarithms of 1 and 2
Exp(l) == IF l = "ln2" THEN 2 ELSE 1

\* one frame's outputs for the two anchors: class rows (background last) and
\* regression rows (offset of the end, log-length)
Frame(c0, r0, c1, r1) ==
    [cls |-> Arr(<<Arr(c0), Arr(c1)>>), reg |-> Arr(<<Arr(r0), Arr(r1)>>)]

\* nothing above the threshold but the background
FrameQuiet == Frame(<<0, 0, 3>>, <<0, "ln1">>, <<0, 0, 3>>, <<0, "ln1">>)
\* class a on anchor 0, segment [idx-1, idx]
FrameOne == Frame(<<2, 0, 0>>, <<0, "ln1">>, <<0, 0, 3>>, <<0, "ln1">>)
\* classes a and b on anchor 0, segment [idx-2, idx-1]
FrameMulti == Frame(<<3, 2, 0>>, <<-1, "ln1">>, <<0, 0, 3>>, <<0, "ln1">>)
\* class a on both anchors, segments [idx-1, idx] and [idx-4, idx-2]
FrameTwoSame == Frame(<<2, 0, 0>>, <<0, "ln1">>, <<3, 0, 0>>, <<-1, "ln1">>)
\* class b on both anchors, segments [idx-1, idx] and [idx-2, idx] (tIoU 1/2);
\* class a at the threshold on anchor 0
FrameHalf == Frame(<<1, 3, 0>>, <<0, "ln1">>, <<0, 2, 3>>, <<0, "ln1">>)
\* classes a and b with equal scores on anchor 1, segment [idx-4, idx]
FrameLong == Frame(<<0, 0, 3>>, <<0, "ln1">>, <<2, 2, 0>>, <<0, "ln2">>)

FrameInputs ==
    {FrameQuiet, FrameOne, FrameMulti, FrameTwoSame, FrameHalf, FrameLong}

\* dataset.video_list
VideoLists == {<<>>, <<"v1">>, <<"v1", "v2">>}

\* float(dataset.video_dict[video_name]["duration"]) per frame
SecondsPerFrame(name) == IF name = "v1" THEN 1 ELSE 2

\* what the loops read of one video: dataset.video_len, video_dict and
\* output_cls[video_name], output_reg[video_name]
VideoInputs(name, n) ==
    { [duration |-> Len0(o), video_time |-> Len0(o) * SecondsPerFrame(name),
       output |-> o] :
        o \in UNION { [0..(m-1) -> FrameInputs] : m \in 1..n } }

\* lines 434, 488, 655
frame_to_time(v) == (100 * v.video_time) \div v.duration

\* x*frame_to_time/100.0
ToTime(x, f2t) == (x * f2t) \div 100

(* ------------------------------ decoder ------------------------------- *)
\* a mutation of AboveThreshold: >= for >
AtOrAboveThreshold(x) == x >= threshold

\* lines 442, 497, 671: cls_anc[anc_idx][:-1] > opt['threshold']
AboveThreshold(x) == x > threshold

\* line 442: np.argwhere(cls_anc[anc_idx][:-1] > opt['threshold']), ascending
ClsAbove(row) == { c \in 0..(num_class - 2) : AboveThreshold(row[c]) }

\* lines 457, 512, 686: float(idx*frame_to_time/100.0)
GenTime(i, ed, f2t) == ToTime(i, f2t)

\* lines 451-458: the candidates of one anchor for the classes c, c+1, ...
RECURSIVE AnchorCandidates(_, _, _, _, _, _)
AnchorCandidates(c, row, st, ed, i, f2t) ==
    IF c > num_class - 2 THEN <<>>
    ELSE (IF c \in ClsAbove(row)
            THEN << [segment |-> <<ToTime(st, f2t), ToTime(ed, f2t)>>,
                     score |-> row[c],
                     label |-> label_name[c],
                     gentime |-> GenTime(i, ed, f2t)] >>
            ELSE <<>>)
         \o AnchorCandidates(c + 1, row, st, ed, i, f2t)

\* lines 441-458: the candidates of the anchors a, a+1, ... of frame i
RECURSIVE Decode(_, _, _, _, _)
Decode(a, cls, reg, i, f2t) ==
    IF a >= Len0(anchors) THEN <<>>
    ELSE LET ed == i + anchors[a] * reg[a][0]
             length == anchors[a] * Exp(reg[a][1])
             st == ed - length
         IN  AnchorCandidates(0, cls[a], st, ed, i, f2t)
               \o Decode(a + 1, cls, reg, i, f2t)

(* ------------------------ static suppression -------------------------- *)
\* tIoU of two segments: overlap/union if union > 0 else 0
temporal_iou(x, y) ==
    LET overlap == Max2(0, Min2(x[2], y[2]) - Max2(x[1], y[1]))
        union == (x[2] - x[1]) + (y[2] - y[1]) - overlap
    IN  IF union > 0 THEN <<overlap, union>> ELSE <<0, 1>>

\* the candidates of score v, v-1, ..., 0, each group in list order: the
\* stable descending sort by score
RECURSIVE ByScoreFrom(_, _)
ByScoreFrom(pool, v) ==
    IF v < 0 THEN <<>>
    ELSE SelectSeq(pool, LAMBDA c : c.score = v) \o ByScoreFrom(pool, v - 1)

MaxScoreOf(pool) ==
    IF pool = <<>> THEN 0
    ELSE CHOOSE v \in { pool[k].score : k \in DOMAIN pool } :
            \A k \in DOMAIN pool : pool[k].score <= v

\* some entry of list overlaps candidate c: tIoU > overlapThresh
OverlapsAny(list, c, overlapThresh) ==
    \E k \in DOMAIN list :
        FracLess(overlapThresh, temporal_iou(list[k].segment, c.segment))

\* the greedy pass over the sorted candidates from position k on
RECURSIVE KeepFrom(_, _, _, _)
KeepFrom(sorted, k, kept, overlapThresh) ==
    IF k > Len(sorted) THEN kept
    ELSE KeepFrom(sorted, k + 1,
                  IF OverlapsAny(kept, sorted[k], overlapThresh) THEN kept
                  ELSE Append(kept, sorted[k]),
                  overlapThresh)

\* iou_utils.non_max_suppression: score-descending (stable), a candidate is
\* kept unless its tIoU with an already kept one is > overlapThresh, whatever
\* the labels
non_max_suppression(pool, overlapThresh) ==
    KeepFrom(ByScoreFrom(pool, MaxScoreOf(pool)), 1, <<>>, overlapThresh)

(* --------------------------- eval_map_nms ----------------------------- *)
\* the frames of the video decoded so far, in order (what line 460 pooled)
RECURSIVE PoolUpTo(_, _)
PoolUpTo(v, n) ==
    IF n = 0 THEN <<>>
    ELSE PoolUpTo(v, n - 1)
           \o Decode(0, v.output[n-1].cls, v.output[n-1].reg, n - 1, frame_to_time(v))

\* a mutation of NextPool: line 465 left out
NextPoolKept(kept) == kept

\* line 465: proposal_dict=[]
NextPool(kept) == <<>>

InitNms ==
    /\ pc = "nms_video"
    /\ video_list \in VideoLists
    /\ vpos = 1
    /\ result_dict = <<>> /\ proposal_dict = <<>>
    /\ idx = 0
    /\ video = <<>> /\ proposal_anc_dict = <<>> /\ cls_anc = <<>> /\ reg_anc = <<>>
    /\ conf_queue = <<>> /\ suppress_conf = <<>> /\ history = <<>> /\ twin = <<>>
    /\ total_frames = 0
    /\ EvalIdle

\* lines 431-434: the next video of the list
NmsVideo ==
    /\ pc = "nms_video"
    /\ vpos <= Len(video_list)
    /\ video' \in VideoInputs(video_list[vpos], MaxPoolFrames)
    /\ idx' = 0
    /\ pc' = "nms_frame"
    /\ UNCHANGED <<video_list, vpos, result_dict, proposal_dict, proposal_anc_dict,
                   cls_anc, reg_anc, conf_queue, suppress_conf, total_frames,
                   history, twin>>
    /\ UNCHANGED evalVars

\* lines 436-460: one frame decoded and pooled
NmsFrame ==
    /\ pc = "nms_frame"
    /\ idx < video.duration
    /\ cls_anc' = video.output[idx].cls
    /\ reg_anc' = video.output[idx].reg
    /\ proposal_anc_dict' = Decode(0, cls_anc', reg_anc', idx, frame_to_time(video))
    /\ proposal_dict' = proposal_dict \o proposal_anc_dict'
    /\ idx' = idx + 1
    /\ UNCHANGED <<pc, video_list, vpos, video, result_dict, conf_queue,
                   suppress_conf, total_frames, history, twin>>
    /\ UNCHANGED evalVars

\* lines 462-465: the pool suppressed, stored, emptied
NmsStore ==
    /\ pc = "nms_frame"
    /\ idx = video.duration
    /\ LET kept == non_max_suppression(proposal_dict, soft_nms)
       IN  /\ result_dict' = Append(result_dict, <<video_list[vpos], kept>>)
           /\ proposal_dict' = NextPool(kept)
    /\ vpos' = vpos + 1
    /\ pc' = "nms_video"
    /\ UNCHANGED <<video_list, video, idx, proposal_anc_dict, cls_anc, reg_anc,
                   conf_queue, suppress_conf, total_frames, history, twin>>
    /\ UNCHANGED evalVars

\* line 467: return result_dict
NmsReturn ==
    /\ pc = "nms_video"
    /\ vpos > Len(video_list)
    /\ pc' = "nms_done"
    /\ UNCHANGED <<idx, evalVars, mainVars>>

NextNms == NmsVideo \/ NmsFrame \/ NmsStore \/ NmsReturn

SpecNms == InitNms /\ [][NextNms]_vars

(* ----------------------- claims on eval_map_nms ----------------------- *)
\* the non-background classes of anchor a above the threshold in the frame
\* just decoded
Exceeding(a) == { c \in 0..(num_class - 2) : cls_anc[a][c] > threshold }

RECURSIVE EmittedBefore(_)
EmittedBefore(a) ==
    IF a = 0 THEN 0 ELSE EmittedBefore(a - 1) + Cardinality(Exceeding(a - 1))

\* the positions of anchor a's candidates in the frame's list
Block(a) == (EmittedBefore(a) + 1)..EmittedBefore(a + 1)

\* C19: the frame's candidate list consists of one block per anchor, in
\* anchor order, holding exactly one candidate per non-background class whose
\* score is > threshold, with that class's label and score (none for the
\* background, none for a class at or below the threshold); the candidates of
\* a block share segment and gentime.
C19_DecoderEmission ==
    (pc = "nms_frame" /\ idx > 0) =>
        /\ Len(proposal_anc_dict) = EmittedBefore(Len0(anchors))
        /\ \A a \in DOMAIN anchors :
             /\ \A c \in Exceeding(a) :
                  \E k \in Block(a) :
                     /\ proposal_anc_dict[k].label = label_name[c]
                     /\ proposal_anc_dict[k].score = cls_anc[a][c]
                     /\ \A l \in Block(a) :
                          proposal_anc_dict[l].label = label_name[c] => l = k
             /\ \A k \in Block(a) :
                  \E c \in Exceeding(a) : proposal_anc_dict[k].label = label_name[c]
             /\ \A k, l \in Block(a) :
                  /\ proposal_anc_dict[k].segment = proposal_anc_dict[l].segment
                  /\ proposal_anc_dict[k].gentime = proposal_anc_dict[l].gentime

\* a frame where one anchor emitted two classes and the other, with only the
\* background above the threshold, emitted nothing
C19_Witness ==
    /\ pc = "nms_frame" /\ idx > 1
    /\ \E a, b \in DOMAIN anchors :
         /\ Cardinality(Exceeding(a)) = 2
         /\ cls_anc[b][num_class - 1] > threshold /\ Exceeding(b) = {}
    /\ Len(proposal_anc_dict) = 2
    /\ proposal_anc_dict[1].label # proposal_anc_dict[2].label

Occurrences(list, x) == Cardinality({ k \in DOMAIN list : list[k] = x })

\* every entry of kept is an entry of pool, no more often than there
SubCollection(kept, pool) ==
    \A k \in DOMAIN kept : Occurrences(kept, kept[k]) <= Occurrences(pool, kept[k])

\* the list stored last and the candidates of all frames of its video
StoredLast == result_dict[vpos - 1][2]
PoolOfLast == PoolUpTo(video, video.duration)

\* C20: the list stored for a video is a sub-collection of the candidates
\* decoded from that video's frames, not longer than it, and no two of its
\* entries have tIoU > soft_nms, whatever their labels.
C20_StoredSuppressed ==
    (pc = "nms_video" /\ vpos > 1) =>
        /\ result_dict[vpos - 1][1] = video_list[vpos - 1]
        /\ SubCollection(StoredLast, PoolOfLast)
        /\ Len(StoredLast) <= Len(PoolOfLast)
        /\ \A j, k \in DOMAIN StoredLast :
             j # k => ~FracLess(soft_nms, temporal_iou(StoredLast[j].segment,
                                                       StoredLast[k].segment))

\* the second video's list is stored: a candidate was dropped for one of
\* another label, two of tIoU exactly soft_nms were both kept, and the first
\* video had stored a non-empty list
C20_Witness ==
    /\ pc = "nms_video" /\ vpos = 3
    /\ result_dict[1][2] # <<>>
    /\ \E j \in DOMAIN PoolOfLast : \E k \in DOMAIN StoredLast :
          /\ Occurrences(StoredLast, PoolOfLast[j]) = 0
          /\ PoolOfLast[j].label # StoredLast[k].label
          /\ FracLess(soft_nms, temporal_iou(PoolOfLast[j].segment, StoredLast[k].segment))
    /\ \E j, k \in DOMAIN StoredLast :
          /\ j # k
          /\ ~FracLess(temporal_iou(StoredLast[j].segment, StoredLast[k].segment),
                       soft_nms)

(* -------------------------- online refiner ---------------------------- *)
\* a value returned by the suppression network: a finite float, NaN, +Inf
\* or -Inf
SupFinite(v) == [kind |-> "fin", val |-> v]
SupNaN == [kind |-> "nan", val |-> 0]
SupPosInf == [kind |-> "pinf", val |-> 0]
SupNegInf == [kind |-> "ninf", val |-> 0]

\* suppress_conf after line 525: one value per non-background class
SupAnswers ==
    { Arr(<<SupFinite(0), SupFinite(0)>>), Arr(<<SupFinite(2), SupFinite(0)>>),
      Arr(<<SupFinite(0), SupFinite(2)>>), Arr(<<SupFinite(2), SupFinite(2)>>),
      Arr(<<SupFinite(1), SupNaN>>), Arr(<<SupPosInf, SupNegInf>>) }

\* a mutation of Exceeds: >= for >
ExceedsOrEquals(x) ==
    \/ x.kind = "pinf"
    \/ x.kind = "fin" /\ x.val >= sup_threshold

\* lines 528, 702: suppress_conf[cls] > opt['sup_threshold'], the comparison of
\* floats: false for NaN and -Inf, true for +Inf
Exceeds(x) ==
    \/ x.kind = "pinf"
    \/ x.kind = "fin" /\ x.val > sup_threshold

ZeroRow == [c \in 0..(num_class - 2) |-> 0]

\* a mutation of FreshQueue: the window allocated once, before the video loop
FreshQueueOnce(q) == IF q = <<>> THEN [r \in 0..(unit_size - 1) |-> ZeroRow] ELSE q

\* lines 489, 651: torch.zeros((unit_size, num_class-1))
FreshQueue(q) == [r \in 0..(unit_size - 1) |-> ZeroRow]

\* a mutation of ShiftQueue: the rows are not moved, the last is zeroed
ShiftQueueInPlace(q) ==
    [r \in DOMAIN q |-> IF r < unit_size - 1 THEN q[r] ELSE ZeroRow]

\* lines 517-518, 691-692: conf_queue[:-1,:]=conf_queue[1:,:].clone();
\* conf_queue[-1,:]=0
ShiftQueue(q) ==
    [r \in DOMAIN q |-> IF r < unit_size - 1 THEN q[r + 1] ELSE ZeroRow]

\* a mutation of WriteScore: a class already written in the frame is kept
WriteScoreFirst(row, proposal) ==
    IF row[LabelIndex(proposal.label)] # 0 THEN row
    ELSE [row EXCEPT ![LabelIndex(proposal.label)] = proposal.score]

\* lines 520-521, 694-695: conf_queue[-1,cls_idx]=proposal["score"]
WriteScore(row, proposal) ==
    [row EXCEPT ![LabelIndex(proposal.label)] = proposal.score]

\* lines 519-521: the writes of the proposals k, k+1, ... of the frame's list
RECURSIVE WriteScores(_, _, _)
WriteScores(row, props, k) ==
    IF k > Len(props) THEN row
    ELSE WriteScores(WriteScore(row, props[k]), props, k + 1)

\* iou_utils.check_overlap_proposal: the entries of the list whose tIoU with
\* the proposal is > overlapThresh; the empty set stands for None
check_overlap_proposal(list, proposal, overlapThresh) ==
    { k \in DOMAIN list :
        FracLess(overlapThresh, temporal_iou(list[k].segment, proposal.segment)) }

\* a mutation of NoOverlap: only accepted entries of the proposal's own label
\* are compared
NoOverlapSameLabel(accepted, proposal) ==
    \A k \in check_overlap_proposal(accepted, proposal, soft_nms) :
        accepted[k].label # proposal.label

\* lines 531, 705: check_overlap_proposal(proposal_dict, proposal,
\* overlapThresh=opt['soft_nms']) is None
NoOverlap(accepted, proposal) ==
    check_overlap_proposal(accepted, proposal, soft_nms) = {}

\* a mutation of AppendProposal: the proposal put in front
PrependProposal(list, proposal) == <<proposal>> \o list

\* lines 532, 706: proposal_dict.append(proposal)
AppendProposal(list, proposal) == Append(list, proposal)

\* lines 529-532: the proposals k, k+1, ... of the frame's list, for class cls
RECURSIVE AcceptProposals(_, _, _, _)
AcceptProposals(accepted, props, k, cls) ==
    IF k > Len(props) THEN accepted
    ELSE AcceptProposals(
            IF /\ props[k].label = label_name[cls]
               /\ NoOverlap(accepted, props[k])
            THEN AppendProposal(accepted, props[k])
            ELSE accepted,
            props, k + 1, cls)

\* lines 527-532: the classes cls, cls+1, ...
RECURSIVE AcceptClasses(_, _, _, _)
AcceptClasses(accepted, props, conf, cls) ==
    IF cls > num_class - 2 THEN accepted
    ELSE AcceptClasses(
            IF Exceeds(conf[cls]) THEN AcceptProposals(accepted, props, 1, cls)
            ELSE accepted,
            props, conf, cls + 1)

\* a mutation of FrameAt: the next frame's outputs read when there is one
FrameAtNext(output, i) ==
    IF i + 1 \in DOMAIN output THEN output[i + 1] ELSE output[i]

\* lines 492-493: output_cls[video_name][idx], output_reg[video_name][idx]
FrameAt(output, i) == output[i]

\* lines 495-521: the frame decoded and suppressed, the window shifted and
\* written
WindowStep(queue, output, i, f2t) ==
    LET frame == FrameAt(output, i)
        props == non_max_suppression(Decode(0, frame.cls, frame.reg, i, f2t),
                                     soft_nms)
        shifted == ShiftQueue(queue)
    IN  [cls |-> frame.cls, reg |-> frame.reg, props |-> props,
         queue |-> [shifted EXCEPT
                      ![unit_size - 1] = WriteScores(shifted[unit_size - 1], props, 1)]]

\* another frame than f
OtherFrame(f) == IF f = FrameQuiet THEN FrameTwoSame ELSE FrameQuiet

\* the outputs of a video that agree with output up to frame d and differ in
\* every later frame
DivergeAfter(output, d) ==
    [f \in DOMAIN output |-> IF f <= d THEN output[f] ELSE OtherFrame(output[f])]

(* ------------------ eval_map_supnet / test_online --------------------- *)
InitOnline ==
    /\ pc = "sup_video"
    /\ video_list \in VideoLists
    /\ vpos = 1
    /\ result_dict = <<>> /\ proposal_dict = <<>>
    /\ idx = 0
    /\ video = <<>> /\ proposal_anc_dict = <<>> /\ cls_anc = <<>> /\ reg_anc = <<>>
    /\ conf_queue = <<>> /\ suppress_conf = <<>> /\ history = <<>> /\ twin = <<>>
    /\ total_frames = 0
    /\ EvalIdle

\* the frames a run processes are at most MaxFrames, and every video of the
\* list has at least one
FramesLeft == MaxFrames - total_frames - (Len(video_list) - vpos)

\* lines 485-489 (649-655): the next video of the list, its window allocated;
\* twin[d] is a second pass over the same video whose outputs differ after
\* frame d
SupVideo ==
    /\ pc = "sup_video"
    /\ vpos <= Len(video_list)
    /\ video' \in VideoInputs(video_list[vpos], FramesLeft)
    /\ conf_queue' = FreshQueue(conf_queue)
    /\ idx' = 0
    /\ history' = <<>>
    /\ twin' = [d \in 0..(video'.duration - 1) |->
                  [output |-> DivergeAfter(video'.output, d),
                   conf_queue |-> conf_queue', proposal_dict |-> proposal_dict]]
    /\ pc' = "sup_frame"
    /\ UNCHANGED <<video_list, vpos, result_dict, proposal_dict, proposal_anc_dict,
                   cls_anc, reg_anc, suppress_conf, total_frames>>
    /\ UNCHANGED evalVars

\* what the suppression network may return to a twin: the same as to the
\* video's pass when it is given the same window, anything otherwise
TwinAnswers(conf, queue, i, f2t) ==
    IF \A d \in DOMAIN twin :
          i <= d => WindowStep(twin[d].conf_queue, twin[d].output, i, f2t).queue = queue
    THEN {conf}
    ELSE SupAnswers

\* lines 491-532 (657-706): one frame: decode, suppress, shift and write the
\* window, ask the suppression network, accept
SupFrame ==
    /\ pc = "sup_frame"
    /\ idx < video.duration
    /\ LET f2t == frame_to_time(video)
           w == WindowStep(conf_queue, video.output, idx, f2t)
       IN  \E conf \in SupAnswers :
             /\ cls_anc' = w.cls /\ reg_anc' = w.reg
             /\ proposal_anc_dict' = w.props
             /\ conf_queue' = w.queue
             /\ suppress_conf' = conf
             /\ proposal_dict' = AcceptClasses(proposal_dict, w.props, conf, 0)
             /\ history' = Append(history,
                                  [props |-> w.props, row |-> w.queue[unit_size - 1],
                                   n |-> Len(proposal_dict')])
             /\ \E conf2 \in TwinAnswers(conf, w.queue, idx, f2t) :
                  twin' = [d \in DOMAIN twin |->
                     IF idx > d THEN twin[d]
                     ELSE LET w2 == WindowStep(twin[d].conf_queue, twin[d].output,
                                               idx, f2t)
                              c2 == IF w2.queue = w.queue THEN conf ELSE conf2
                          IN  [twin[d] EXCEPT
                                 !.conf_queue = w2.queue,
                                 !.proposal_dict =
                                    AcceptClasses(twin[d].proposal_dict, w2.props,
                                                  c2, 0)]]
    /\ idx' = idx + 1
    /\ total_frames' = total_frames + 1
    /\ UNCHANGED <<pc, video_list, vpos, video, result_dict>>
    /\ UNCHANGED evalVars

\* lines 534-535 (708-709): the accepted set stored, a new list begun
SupStore ==
    /\ pc = "sup_frame"
    /\ idx = video.duration
    /\ result_dict' = Append(result_dict, <<video_list[vpos], proposal_dict>>)
    /\ proposal_dict' = <<>>
    /\ vpos' = vpos + 1
    /\ pc' = "sup_video"
    /\ UNCHANGED <<video_list, video, idx, proposal_anc_dict, cls_anc, reg_anc,
                   conf_queue, suppress_conf, total_frames, history, twin>>
    /\ UNCHANGED evalVars

\* line 537 (711-718): return result_dict
SupReturn ==
    /\ pc = "sup_video"
    /\ vpos > Len(video_list)
    /\ pc' = "sup_done"
    /\ UNCHANGED <<idx, evalVars, mainVars>>

NextOnline == SupVideo \/ SupFrame \/ SupStore \/ SupReturn

SpecOnline == InitOnline /\ [][NextOnline]_vars

(* --------------------- claims on the online refiner ------------------- *)
\* a step of the frame loop
FrameStep == pc = "sup_frame" /\ idx' = idx + 1

\* x > sup_threshold as floats compare: never for NaN or -Inf
AboveSupThreshold(x) ==
    \/ x.kind = "fin" /\ x.val > sup_threshold
    \/ x.kind = "pinf"

\* the entries of after behind the first Len(before)
Added(before, after) == SubSeq(after, Len(before) + 1, Len(after))

IsPrefix(before, after) ==
    /\ Len(before) <= Len(after)
    /\ SubSeq(after, 1, Len(before)) = before

\* the step's loops take the classes in index order and, per class, the
\* frame's list in list order: proposal j comes before proposal k
TurnBefore(props, j, k) ==
    \/ LabelIndex(props[j].label) < LabelIndex(props[k].label)
    \/ LabelIndex(props[j].label) = LabelIndex(props[k].label) /\ j < k

\* the accepted set when proposal k has its turn: the set before the step
\* and the step's additions that had their turn earlier
AtTurn(before, new, props, k) ==
    before \o SelectSeq(new, LAMBDA q :
                 \E j \in DOMAIN props : props[j] = q /\ TurnBefore(props, j, k))

\* C12: in a frame's step the accepted set grows by proposals of that frame's
\* suppressed list only, and a proposal of the list is added iff the
\* suppression score of its class at this frame is > sup_threshold and no
\* entry of the accepted set as it stands at its turn overlaps it.
C12_AcceptRule ==
    [][ FrameStep =>
        LET props == proposal_anc_dict'
            new == Added(proposal_dict, proposal_dict')
        IN  /\ IsPrefix(proposal_dict, proposal_dict')
            /\ \A j \in DOMAIN new : \E k \in DOMAIN props : props[k] = new[j]
            /\ \A k \in DOMAIN props :
                 (\E j \in DOMAIN new : new[j] = props[k])
                   <=> /\ AboveSupThreshold(suppress_conf'[LabelIndex(props[k].label)])
                       /\ ~OverlapsAny(AtTurn(proposal_dict, new, props, k),
                                       props[k], soft_nms) ]_vars

\* three frames with a proposal of class a each: the first is not accepted
\* (its class did not pass), the second is, the third passes the gate and is
\* refused for overlapping the second
C12_Witness ==
    /\ pc = "sup_frame" /\ idx = 3
    /\ \A f \in 1..3 : \E k \in DOMAIN history[f].props :
          history[f].props[k].label = "a"
    /\ history[1].n = 0 /\ history[2].n = 1 /\ history[3].n = 1
    /\ proposal_dict[1].gentime = ToTime(1, frame_to_time(video))
    /\ AboveSupThreshold(suppress_conf[0])
    /\ \E k \in DOMAIN proposal_anc_dict :
          /\ proposal_anc_dict[k].label = "a"
          /\ OverlapsAny(proposal_dict, proposal_anc_dict[k], soft_nms)

ZeroWindow == [r \in 0..(unit_size - 1) |-> [c \in 0..(num_class - 2) |-> 0]]

\* C13: when a video's first frame is about to be processed the window is
\* unit_size rows of num_class-1 zeros and the accepted set is empty; while a
\* video is processed every non-zero window row was written and every
\* accepted proposal was proposed in a frame of this video; and what is stored
\* for a video is its accepted set after its last frame, under its name, the
\* stored results of the earlier videos staying as they are.
C13_PerVideoState ==
    /\ []((pc = "sup_frame" /\ idx = 0) =>
            conf_queue = ZeroWindow /\ proposal_dict = <<>>)
    /\ [](pc = "sup_frame" =>
            /\ \A r \in DOMAIN conf_queue :
                 \/ conf_queue[r] = ZeroRow
                 \/ \E f \in DOMAIN history : history[f].row = conf_queue[r]
            /\ \A k \in DOMAIN proposal_dict :
                 \E f \in DOMAIN history : \E j \in DOMAIN history[f].props :
                    history[f].props[j] = proposal_dict[k])
    /\ [][ (pc = "sup_frame" /\ pc' = "sup_video") =>
             /\ idx = video.duration
             /\ result_dict' = Append(result_dict, <<video_list[vpos], proposal_dict>>)
         ]_vars

\* the second video is at its first frame after the first video left a
\* non-zero window behind and had proposals accepted
C13_Witness ==
    /\ pc = "sup_frame" /\ idx = 0 /\ vpos = 2
    /\ result_dict[1][2] # <<>>
    /\ \E c \in DOMAIN suppress_conf : AboveSupThreshold(suppress_conf[c])
    /\ \E k \in DOMAIN proposal_anc_dict :
          proposal_anc_dict[k] = result_dict[1][2][Len(result_dict[1][2])]

\* the row written at frame f of the video (history is 1-based)
RowOf(f) == history[f + 1].row

\* C14: after the step at frame f = idx-1 the window's row unit_size-1-k is
\* the row written at frame f-k, for 0 <= k <= min(f, unit_size-1), and the
\* older rows are zero; a step moves every row but the oldest one place up,
\* in order, and the window keeps its unit_size rows.
C14_WindowFifo ==
    /\ []((pc = "sup_frame" /\ idx > 0) =>
            LET f == idx - 1
            IN  /\ DOMAIN conf_queue = 0..(unit_size - 1)
                /\ \A k \in 0..(unit_size - 1) :
                     IF k <= f THEN conf_queue[unit_size - 1 - k] = RowOf(f - k)
                     ELSE conf_queue[unit_size - 1 - k] = ZeroRow)
    /\ [][ FrameStep =>
             /\ DOMAIN conf_queue' = DOMAIN conf_queue
             /\ \A r \in 0..(unit_size - 2) : conf_queue'[r] = conf_queue[r + 1]
         ]_vars

\* after three frames the first frame's non-zero row has left the window and
\* the rows of the second and third frame, which differ, fill it
C14_Witness ==
    /\ pc = "sup_frame" /\ idx = 3
    /\ RowOf(0) # ZeroRow /\ RowOf(1) # ZeroRow /\ RowOf(2) # ZeroRow
    /\ RowOf(0) # RowOf(1) /\ RowOf(1) # RowOf(2) /\ RowOf(0) # RowOf(2)
    /\ conf_queue[0] = RowOf(1) /\ conf_queue[1] = RowOf(2)

\* C15: while a video is processed the accepted set before a step is a prefix
\* of the accepted set after it: entries are only added, at the end.
C15_AcceptedGrows ==
    [][ (pc = "sup_frame" /\ pc' = "sup_frame") =>
            IsPrefix(proposal_dict, proposal_dict') ]_vars

\* a proposal accepted at the first frame is still the first entry after two
\* more proposals were accepted at the third frame
C15_Witness ==
    /\ pc = "sup_frame" /\ idx = 3
    /\ history[1].n = 1 /\ history[2].n = 1 /\ history[3].n = 3
    /\ proposal_dict[1].gentime = 0
    /\ proposal_dict[2] # proposal_dict[3]

\* the number of accepted proposals after frame f of the video (0 before the
\* first)
AcceptedAfter(f) == IF f < 0 THEN 0 ELSE history[f + 1].n

\* C16: for every frame d already processed, the accepted set as it stood
\* after frame d is the accepted set after frame d of a pass over a video with
\* the same duration and video time whose outputs are the same up to frame d
\* and differ in every later frame; and every proposal accepted at frame f has
\* gentime f * video_time / duration.
C16_Causal ==
    pc = "sup_frame" =>
        /\ \A d \in DOMAIN twin :
             /\ \A f \in DOMAIN video.output :
                  (twin[d].output[f] = video.output[f]) <=> f <= d
             /\ d < idx =>
                  twin[d].proposal_dict = SubSeq(proposal_dict, 1, AcceptedAfter(d))
        /\ \A f \in 0..(idx - 1) :
             \A k \in (AcceptedAfter(f - 1) + 1)..AcceptedAfter(f) :
                proposal_dict[k].gentime * video.duration = f * video.video_time

\* three frames, proposals accepted at the first and at the third; the pass
\* whose outputs differ after the first frame had the same accepted set after
\* the first frame
C16_Witness ==
    /\ pc = "sup_frame" /\ idx = 3
    /\ AcceptedAfter(0) = 1 /\ AcceptedAfter(1) = 1 /\ AcceptedAfter(2) = 2
    /\ twin[0].proposal_dict = <<proposal_dict[1]>>
    /\ twin[0].output[2] # video.output[2]
    /\ proposal_dict[2].gentime > proposal_dict[1].gentime

\* C17 as claimed: in a frame's step no proposal is accepted for a class whose
\* returned suppression score is NaN, +Inf or -Inf.
C17_NonFiniteBelow ==
    [][ FrameStep =>
          \A c \in DOMAIN suppress_conf' :
             suppress_conf'[c].kind # "fin" =>
                \A j \in DOMAIN Added(proposal_dict, proposal_dict') :
                   Added(proposal_dict, proposal_dict')[j].label # label_name[c]
      ]_vars

\* the positions of class c's proposals in a list
OfClass(props, c) == { k \in DOMAIN props : props[k].label = label_name[c] }

\* per class the score of its last proposal in the list, 0 without any
LastScores(props) ==
    [c \in 0..(num_class - 2) |->
        IF OfClass(props, c) = {} THEN 0
        ELSE LET last == CHOOSE k \in OfClass(props, c) :
                            \A j \in OfClass(props, c) : j <= k
             IN  props[last].score]

\* C18: after the step at frame f = idx-1 the last window row holds per class
\* the score of the class's last proposal in the frame's suppressed list, 0
\* for a class without one; and every earlier row of the window still holds
\* the scores so defined for its own frame: later writes did not touch it.
C18_LastWriteWins ==
    (pc = "sup_frame" /\ idx > 0) =>
        /\ conf_queue[unit_size - 1] = LastScores(proposal_anc_dict)
        /\ \A k \in 0..(unit_size - 1) :
             k <= idx - 1 =>
                conf_queue[unit_size - 1 - k] = LastScores(history[idx - k].props)

\* the frame's list holds two proposals of one class with different scores
\* and the row has the score of the second; the row above it, written one
\* frame earlier for the other class, is still there
C18_Witness ==
    /\ pc = "sup_frame" /\ idx > 1
    /\ \E c, e \in 0..(num_class - 2) :
         /\ Cardinality(OfClass(proposal_anc_dict, c)) = 2
         /\ \E j, k \in OfClass(proposal_anc_dict, c) :
               /\ j < k
               /\ proposal_anc_dict[j].score > proposal_anc_dict[k].score
               /\ conf_queue[unit_size - 1][c] = proposal_anc_dict[k].score
         /\ e # c
         /\ conf_queue[unit_size - 2][e] > 0
         /\ conf_queue[unit_size - 1][e] = 0

(* ------------- further claims on the matcher (Spec) ------------------- *)
\* C29: every prediction marked true positive at threshold t has locked a
\* ground-truth instance of its own video whose tIoU with it is >= t, and the
\* lock entry of that instance holds the prediction's score-sorted index.
C29_TruePositiveLocked ==
    HasArrays =>
        \A t \in T : \A i \in P :
            tp[t][i] = 1 =>
                \E g \in G :
                    /\ lock_gt[t][g] = i
                    /\ SameVideo(i, g)
                    /\ FracGeq(Tiou(i, g), tiou_thresholds[t])

\* a true positive at a threshold above 0 stands next to an instance of the
\* same video it could not take, and a second prediction is a false positive
\* although its video has ground truth
C29_Witness ==
    /\ pc = "done" /\ HasArrays
    /\ \E t \in T : \E i, j \in P : \E g \in G :
         /\ tiou_thresholds[t] # <<0, 1>>
         /\ tp[t][i] = 1 /\ lock_gt[t][g] = i
         /\ fp[t][j] = 1 /\ SameVideo(j, g)
         /\ FracLess(Tiou(j, g), tiou_thresholds[t])

\* a sequence without a repeated element
NoRepeat(seq) == \A a, b \in DOMAIN seq : a # b => seq[a] # seq[b]

\* the group positions of the ground truth of the video of prediction i
GroupOf(i) == DOMAIN GroupIndex(ground_truth, sorted_prediction[i].video)

\* C27: compute_average_precision_detection terminates; the loop of line 229
\* visits the predictions one by one, each exactly once, and for each
\* threshold the walk of line 253 examines each ground-truth instance of the
\* prediction's video at most once.
C27_Terminates ==
    /\ <>(pc = "done")
    /\ [][ pc = "match" /\ pc' = "match"
              => idx < Len0(prediction) /\ idx' = idx + 1 ]_vars
    /\ [](pc = "done" /\ HasArrays => idx = Len0(prediction))
    /\ [](HasArrays /\ idx > 0 =>
             \A t \in T :
                 /\ NoRepeat(walked[t])
                 /\ \A k \in DOMAIN walked[t] : walked[t][k] \in GroupOf(idx - 1))

\* the pass ended after a walk that went over a locked instance and examined
\* a second one
C27_Witness ==
    /\ pc = "done" /\ HasArrays /\ idx = 2
    /\ \E t \in T : Len(walked[t]) = 2 /\ tp[t][1] = 1

(* ------------- further claims on the online refiner ------------------- *)
\* two proposals overlap above the overlap threshold opt['soft_nms']
Overlapping(x, y) == FracLess(soft_nms, temporal_iou(x.segment, y.segment))

\* C30: at every point of a video's processing no two proposals of the
\* accepted set overlap each other above the overlap threshold, whatever
\* their classes and whether or not they were accepted in the same frame.
C30_AcceptedDisjoint ==
    pc \in {"sup_frame", "sup_store"} =>
        \A a, b \in DOMAIN proposal_dict :
            a # b => ~Overlapping(proposal_dict[a], proposal_dict[b])

\* two proposals were accepted in one frame, and a later frame's list held a
\* proposal whose class passed the gate and which was refused because it
\* overlaps an accepted proposal of another class
C30_Witness ==
    /\ pc = "sup_frame" /\ idx > 0
    /\ \E a, b \in DOMAIN proposal_dict :
         a # b /\ proposal_dict[a].gentime = proposal_dict[b].gentime
    /\ \E k \in DOMAIN proposal_anc_dict : \E a \in DOMAIN proposal_dict :
         /\ Exceeds(suppress_conf[LabelIndex(proposal_anc_dict[k].label)])
         /\ Overlapping(proposal_dict[a], proposal_anc_dict[k])
         /\ proposal_dict[a].label # proposal_anc_dict[k].label

(***************************************************************************)
(* The generation time of a decoded proposal when the video's duration in  *)
(* seconds is any float: the decoder of lines 440-458 (504-513, 678-686)   *)
(* as a function of one frame, with float arithmetic on values that may be *)
(* NaN or infinite.                                                        *)
(***************************************************************************)
\* a float: finite, NaN, +Inf or -Inf
Float(v) == [kind |-> "fin", val |-> v]
NaN == [kind |-> "nan", val |-> 0]
PosInf == [kind |-> "pinf", val |-> 0]
NegInf == [kind |-> "ninf", val |-> 0]

IsFiniteFloat(x) == x.kind = "fin"

\* lines 433, 487, 654: float(dataset.video_dict[video_name]["duration"]),
\* which is any float the annotation file holds
FloatVideoTimes(v) == { Float(v.video_time), PosInf, NaN }

\* the videos of VideoInputs with each of these durations in seconds
FloatVideoInputs(name, n) ==
    UNION { { [v EXCEPT !.video_time = t] : t \in FloatVideoTimes(v) } :
              v \in VideoInputs(name, n) }

\* lines 434, 488, 655: 100.0*video_time / duration, duration > 0
float_frame_to_time(v) ==
    IF IsFiniteFloat(v.video_time)
    THEN Float(frame_to_time([v EXCEPT !.video_time = v.video_time.val]))
    ELSE v.video_time

\* x*frame_to_time/100.0 for a finite x: 0*Inf is NaN, x*Inf has the sign of x
FloatToTime(x, f2t) ==
    IF IsFiniteFloat(f2t) THEN Float(ToTime(x, f2t.val))
    ELSE IF f2t.kind = "nan" \/ x = 0 THEN NaN
    ELSE IF (x > 0) = (f2t.kind = "pinf") THEN PosInf
    ELSE NegInf

\* lines 457, 512, 686: tmp_dict["gentime"] = float(idx*frame_to_time/100.0)
GenTimeFloat(i, f2t) == FloatToTime(i, f2t)

\* lines 441-458: the frame's candidates. Decode at the scale 100 gives st, ed
\* and idx themselves (x*100/100); lines 454 and 457 scale them
DecodeFloat(cls, reg, i, f2t) ==
    LET raw == Decode(0, cls, reg, i, 100)
    IN  [k \in DOMAIN raw |->
            [segment |-> << FloatToTime(raw[k].segment[1], f2t),
                            FloatToTime(raw[k].segment[2], f2t) >>,
             score |-> raw[k].score,
             label |-> raw[k].label,
             gentime |-> GenTimeFloat(raw[k].gentime, f2t)]]

\* a video and one of its frames
InitGentime ==
    /\ pc = "decode"
    /\ \E name \in Videos : video \in FloatVideoInputs(name, MaxPoolFrames)
    /\ idx \in 0..(video.duration - 1)
    /\ video_list = <<>> /\ vpos = 0 /\ result_dict = <<>>
    /\ proposal_dict = <<>> /\ proposal_anc_dict = <<>>
    /\ cls_anc = <<>> /\ reg_anc = <<>> /\ conf_queue = <<>>
    /\ suppress_conf = <<>> /\ total_frames = 0 /\ history = <<>> /\ twin = <<>>
    /\ EvalIdle

\* lines 437-458 for the frame idx
DecodeFrame ==
    /\ pc = "decode"
    /\ cls_anc' = video.output[idx].cls
    /\ reg_anc' = video.output[idx].reg
    /\ proposal_anc_dict' = DecodeFloat(video.output[idx].cls, video.output[idx].reg,
                                        idx, float_frame_to_time(video))
    /\ pc' = "decoded"
    /\ UNCHANGED <<idx, video_list, vpos, video, result_dict, proposal_dict,
                   conf_queue, suppress_conf, total_frames, history, twin>>
    /\ UNCHANGED evalVars

NextGentime == DecodeFrame

SpecGentime == InitGentime /\ [][NextGentime]_vars

\* C21: every proposal the decoder emits has the key gentime with a finite
\* float value, which is 0 when the computed generation time is not finite.
C21_GentimeFinite ==
    pc = "decoded" =>
        \A k \in DOMAIN proposal_anc_dict :
            /\ "gentime" \in DOMAIN proposal_anc_dict[k]
            /\ IsFiniteFloat(proposal_anc_dict[k].gentime)
            /\ ~IsFiniteFloat(FloatToTime(idx, float_frame_to_time(video)))
                 => proposal_anc_dict[k].gentime = Float(0)

(***************************************************************************)
(* src/Evaluation/eval_detection_gentime.py:                               *)
(* ANETdetection.wrapper_compute_average_precision.  The data frames       *)
(* self.ground_truth and self.prediction are arrays of rows with a label   *)
(* column; activity_index is the list of its items, [key, val], in         *)
(* insertion order.                                                        *)
(***************************************************************************)
(* ------------ ANETdetection.__init__ and the two loaders ------------- *)
\* strings whose characters matter are tuples of characters
Val == <<"v", "a", "l">>
Valx == <<"v", "a", "l", "x">>
Tr == <<"t", "r">>
\* a field that is a str, or a list of str (val holds the one string, or
\* the elements)
Str(s) == [kind |-> "str", val |-> <<s>>]
List(l) == [kind |-> "list", val |-> l]

\* the values of a video's 'subset' field
SubsetFields == { Str(Val), Str(Valx), Str(Tr), List(<<Val>>), List(<<Tr, Valx>>) }

\* Python's 'x in y': a substring test on a str, an element test on a list
IsSubstring(x, s) ==
    \E i \in 0..(Len(s) - Len(x)) : SubSeq(s, i + 1, i + Len(x)) = x
PyIn(x, y) ==
    IF y.kind = "str" THEN IsSubstring(x, y.val[1])
    ELSE \E i \in DOMAIN y.val : y.val[i] = x

GROUND_TRUTH_FIELDS == {"database"}
PREDICTION_FIELDS == {"results", "version", "external_data"}

\* a mutation of HasFields: 'any' for 'all'
HasFieldsAny(d, fields) == \E field \in fields : field \in DOMAIN d

\* lines 70, 114: all([field in list(data.keys()) for field in fields])
HasFields(d, fields) == \A field \in fields : field \in DOMAIN d

\* the files: at most MaxFileVideos videos "v1", "v2" in this order, each
\* with at most MaxFileRecords records; the k-th record of a video has a
\* segment (a score) of its own, so that records can be told apart
MaxFileVideos == 2
MaxFileRecords == 2
FileIds == [n \in 1..MaxFileVideos |-> <<"v1", "v2", "v3", "v4">>[n]]
FileVideoIds == { SubSeq(FileIds, 1, n) : n \in 0..MaxFileVideos }
VideoNo(v) == CHOOSE n \in DOMAIN FileIds : FileIds[n] = v
GtLabels == {"a", "b"}
PredLabels == {"a", "b", "c"}
LabelSeqs(L) == UNION { [1..n -> L] : n \in 0..MaxFileRecords }
Annotations(ls) ==
    [k \in DOMAIN ls |->
        [label |-> ls[k], segment |-> <<0, 2 * (MaxFileRecords + 1 - k)>>]]
ResultsOf(v, ls) ==
    [k \in DOMAIN ls |-> [label |-> ls[k], segment |-> <<0, 4>>,
                           score |-> (MaxFileVideos - VideoNo(v)) * MaxFileRecords
                                       + MaxFileRecords + 1 - k,
                           gentime |-> 5]]
Databases ==
    UNION { { [n \in DOMAIN ids |->
                 [videoid |-> ids[n], subset |-> f[n],
                  annotations |-> Annotations(l[n])]] :
              f \in [DOMAIN ids -> SubsetFields],
              l \in [DOMAIN ids -> LabelSeqs(GtLabels)] } : ids \in FileVideoIds }
ResultSets ==
    UNION { { [n \in DOMAIN ids |->
                 [videoid |-> ids[n], results |-> ResultsOf(ids[n], l[n])]] :
              l \in [DOMAIN ids -> LabelSeqs(PredLabels)] } : ids \in FileVideoIds }
JsonFile(keys, main, content) == [k \in keys |-> IF k = main THEN content ELSE <<>>]
GTFiles ==
    { JsonFile({"version"}, "database", <<>>) }
    \cup { JsonFile(keys, "database", db) :
             keys \in { {"database"}, {"database", "version"} }, db \in Databases }
OneResult == [n \in 1..1 |-> [videoid |-> "v1", results |-> ResultsOf("v1", <<"a">>)]]
PredFiles ==
    { JsonFile(keys, "results", OneResult) :
        keys \in (SUBSET PREDICTION_FIELDS) \ {PREDICTION_FIELDS} }
    \cup { JsonFile(PREDICTION_FIELDS, "results", r) : r \in ResultSets }

\* utils.get_blocked_videos(): some list of video ids
get_blocked_videos == { <<>>, <<"v1">> }

\* the keys of the dict, and the value of one of them
KeysOf(ai) == { ai[i].key : i \in DOMAIN ai }
IndexOf(ai, label) == ai[CHOOSE i \in DOMAIN ai : ai[i].key = label].val

\* a mutation of NextIndex: the counter not advanced
NextIndexSame(c) == c

\* line 84: cidx += 1
NextIndex(c) == c + 1

\* a mutation of Blocked: no video is blocked
BlockedNever(videoid, blocked) == FALSE

\* line 122: videoid in self.blocked_videos
Blocked(videoid, blocked) == \E i \in DOMAIN blocked : blocked[i] = videoid

\* line 78: self.subset not in v['subset']
SubsetSkipped(s, field) == ~PyIn(s, field)

\* no object, no call
InitLoad ==
    /\ pc = "init"
    /\ idx = 0
    /\ ObjIdle
    /\ tiou_thresholds = <<>>
    /\ NoCall
    /\ MainIdle

wrapVars == <<cpos, w_ap, w_tdiff, w_cnt_tp, final_tdiff, self_ap, self_tdiff>>

\* lines 20-37: the arguments checked and stored, the blocked list fetched
Construct ==
    /\ pc = "init"
    /\ \E ground_truth_filename, prediction_filename \in {"", "f.json"} :
          IF ground_truth_filename = "" \/ prediction_filename = ""
          THEN /\ pc' = "raised"
               /\ UNCHANGED <<subset, tiou_thresholds, blocked_videos>>
          ELSE /\ pc' = "gt_open"
               /\ subset' = Val
               /\ tiou_thresholds' = Arr(<< <<1, 2>> >>)
               /\ \E check_status \in BOOLEAN :
                     blocked_videos' \in
                         (IF check_status THEN get_blocked_videos ELSE { <<>> })
    /\ UNCHANGED <<idx, evaluator, data, activity_index, cidx, lists, vnum,
                   anum, self_ground_truth, self_prediction, wrapVars,
                   callVars, mainVars>>

\* lines 67-75: the file read and checked, the lists and the index emptied
GtOpen ==
    /\ pc = "gt_open"
    /\ \E file \in GTFiles :
          /\ data' = file
          /\ IF HasFields(file, GROUND_TRUTH_FIELDS)
             THEN /\ pc' = "gt_loop"
                  /\ activity_index' = <<>> /\ cidx' = 0 /\ lists' = <<>>
                  /\ vnum' = 1 /\ anum' = 1
             ELSE /\ pc' = "raised"
                  /\ UNCHANGED <<activity_index, cidx, lists, vnum, anum>>
    /\ UNCHANGED <<idx, tiou_thresholds, evaluator, subset, blocked_videos,
                   self_ground_truth, self_prediction, wrapVars, callVars,
                   mainVars>>

\* lines 77-79: a video of another subset
GtSkipVideo ==
    /\ pc = "gt_loop"
    /\ vnum <= Len(data["database"])
    /\ SubsetSkipped(subset, data["database"][vnum].subset)
    /\ vnum' = vnum + 1
    /\ UNCHANGED <<pc, idx, tiou_thresholds, evaluator, subset, blocked_videos,
                   data, activity_index, cidx, lists, anum, self_ground_truth,
                   self_prediction, wrapVars, callVars, mainVars>>

\* lines 81-88: one annotation, its label indexed if new, its row appended
GtAnnotation ==
    /\ pc = "gt_loop"
    /\ vnum <= Len(data["database"])
    /\ ~SubsetSkipped(subset, data["database"][vnum].subset)
    /\ anum <= Len(data["database"][vnum].annotations)
    /\ LET v == data["database"][vnum]
           ann == v.annotations[anum]
           isnew == ann.label \notin KeysOf(activity_index)
           ai == IF isnew
                   THEN Append(activity_index, [key |-> ann.label, val |-> cidx])
                   ELSE activity_index
       IN  /\ activity_index' = ai
           /\ cidx' = IF isnew THEN NextIndex(cidx) ELSE cidx
           /\ lists' = Append(lists, [video |-> v.videoid,
                                      ts |-> ann.segment[1],
                                      te |-> Finite(ann.segment[2]),
                                      label |-> IndexOf(ai, ann.label)])
    /\ anum' = anum + 1
    /\ UNCHANGED <<pc, idx, tiou_thresholds, evaluator, subset, blocked_videos,
                   data, vnum, self_ground_truth, self_prediction, wrapVars,
                   callVars, mainVars>>

\* line 81 exhausted: the next video
GtNextVideo ==
    /\ pc = "gt_loop"
    /\ vnum <= Len(data["database"])
    /\ ~SubsetSkipped(subset, data["database"][vnum].subset)
    /\ anum > Len(data["database"][vnum].annotations)
    /\ vnum' = vnum + 1
    /\ anum' = 1
    /\ UNCHANGED <<pc, idx, tiou_thresholds, evaluator, subset, blocked_videos,
                   data, activity_index, cidx, lists, self_ground_truth,
                   self_prediction, wrapVars, callVars, mainVars>>

\* lines 90-95, 39-40: the data frame built and returned with the index
GtReturn ==
    /\ pc = "gt_loop"
    /\ vnum > Len(data["database"])
    /\ self_ground_truth' = Arr(lists)
    /\ data' = <<>> /\ lists' = <<>> /\ vnum' = 0 /\ anum' = 0
    /\ pc' = "pred_open"
    /\ UNCHANGED <<idx, tiou_thresholds, evaluator, subset, blocked_videos,
                   activity_index, cidx, self_prediction, wrapVars, callVars,
                   mainVars>>

\* lines 111-120: the file read and checked, the lists emptied
PredOpen ==
    /\ pc = "pred_open"
    /\ \E file \in PredFiles :
          /\ data' = file
          /\ IF HasFields(file, PREDICTION_FIELDS)
             THEN /\ pc' = "pred_loop"
                  /\ lists' = <<>> /\ vnum' = 1 /\ anum' = 1
             ELSE /\ pc' = "raised"
                  /\ UNCHANGED <<lists, vnum, anum>>
    /\ UNCHANGED <<idx, tiou_thresholds, evaluator, subset, blocked_videos,
                   activity_index, cidx, self_ground_truth, self_prediction,
                   wrapVars, callVars, mainVars>>

\* lines 121-123: a blocked video
PredSkipVideo ==
    /\ pc = "pred_loop"
    /\ vnum <= Len(data["results"])
    /\ Blocked(data["results"][vnum].videoid, blocked_videos)
    /\ vnum' = vnum + 1
    /\ UNCHANGED <<pc, idx, tiou_thresholds, evaluator, subset, blocked_videos,
                   data, activity_index, cidx, lists, anum, self_ground_truth,
                   self_prediction, wrapVars, callVars, mainVars>>

\* lines 124-134: one result, dropped if its label is unknown, else appended
PredResult ==
    /\ pc = "pred_loop"
    /\ vnum <= Len(data["results"])
    /\ ~Blocked(data["results"][vnum].videoid, blocked_videos)
    /\ anum <= Len(data["results"][vnum].results)
    /\ LET v == data["results"][vnum]
           result == v.results[anum]
       IN  lists' = IF result.label \notin KeysOf(activity_index)
                      THEN lists
                      ELSE Append(lists,
                             [video |-> v.videoid,
                              ts |-> result.segment[1],
                              te |-> result.segment[2],
                              label |-> IndexOf(activity_index, result.label),
                              score |-> result.score,
                              gentime |-> Finite(result.gentime)])
    /\ anum' = anum + 1
    /\ UNCHANGED <<pc, idx, tiou_thresholds, evaluator, subset, blocked_videos,
                   data, activity_index, cidx, vnum, self_ground_truth,
                   self_prediction, wrapVars, callVars, mainVars>>

\* line 124 exhausted: the next video
PredNextVideo ==
    /\ pc = "pred_loop"
    /\ vnum <= Len(data["results"])
    /\ ~Blocked(data["results"][vnum].videoid, blocked_videos)
    /\ anum > Len(data["results"][vnum].results)
    /\ vnum' = vnum + 1
    /\ anum' = 1
    /\ UNCHANGED <<pc, idx, tiou_thresholds, evaluator, subset, blocked_videos,
                   data, activity_index, cidx, lists, self_ground_truth,
                   self_prediction, wrapVars, callVars, mainVars>>

\* lines 136-142, 41: the data frame built and stored; __init__ returns
PredReturn ==
    /\ pc = "pred_loop"
    /\ vnum > Len(data["results"])
    /\ self_prediction' = Arr(lists)
    /\ data' = <<>> /\ lists' = <<>> /\ vnum' = 0 /\ anum' = 0
    /\ evaluator' = "built"
    /\ pc' = "wrap"
    /\ UNCHANGED <<idx, tiou_thresholds, subset, blocked_videos,
                   activity_index, cidx, self_ground_truth, wrapVars, callVars,
                   mainVars>>

\* the rows i, i+1, ... of a data frame whose label is c, in order
RECURSIVE ClassSeq(_, _, _)
ClassSeq(table, c, i) ==
    IF i >= Len0(table) THEN <<>>
    ELSE (IF table[i].label = c THEN <<table[i]>> ELSE <<>>)
           \o ClassSeq(table, c, i + 1)

\* a mutation of ClassRows: the class mask left out
ClassRowsAll(table, c) == table

\* lines 152-156: frame.loc[frame['label'] == cidx].reset_index(drop=True)
ClassRows(table, c) == Arr(ClassSeq(table, c, 0))

\* a mutation of SumClasses: the first class's entry only
SumFirstClass(row) == IF Len0(row) = 0 THEN 0 ELSE row[0]

\* lines 159-160: np.sum(..., axis=1), one row of it
SumClasses(row) == IF Len0(row) = 0 THEN 0 ELSE CumSumAt(row, Len0(row) - 1)

\* line 164: valid_mask = total_tp > 0
ValidMask(total) == total > 0

\* lines 163-168: one entry of final_tdiff, a fraction; nan_to_num leaves
\* the quotient of two finite numbers with a non-zero divisor as it is
FinalTdiff(sum_tdiff, total_tp) ==
    IF ValidMask(total_tp) THEN <<sum_tdiff, total_tp>> ELSE <<0, 1>>

\* the data frames and the class index an ANETdetection object can hold with
\* K classes: labels are indices in first-seen order, every class has a
\* ground-truth row, predictions carry indices of the class index only
WrapLabels == <<"a", "b">>
WrapIndex(K) == [k \in 1..K |-> [key |-> WrapLabels[k], val |-> k - 1]]
WithLabel(R, c) ==
    { [video |-> r.video, ts |-> r.ts, te |-> r.te, label |-> c] : r \in R }
WithLabelPred(R, L) ==
    { [video |-> r.video, ts |-> r.ts, te |-> r.te, label |-> c,
       score |-> r.score, gentime |-> r.gentime] : r \in R, c \in L }
WrapGroundTruths(K) ==
    IF K = 0 THEN { <<>> }
    ELSE IF K = 1 THEN { g \in Frames(WithLabel(LiveGT, 0), MaxGT) : Len0(g) > 0 }
    ELSE { Arr(<<a, b>>) : a \in WithLabel(LiveGT, 0), b \in WithLabel(LiveGT, 1) }
WrapPredictions(K) == Frames(WithLabelPred(LivePred, 0..(K - 1)), MaxPred)

\* an object after __init__, before evaluate()
InitWrap ==
    /\ pc = "wrap"
    /\ idx = 0
    /\ evaluator = "built"
    /\ \E K \in 0..2 :
         /\ activity_index = WrapIndex(K)
         /\ self_ground_truth \in WrapGroundTruths(K)
         /\ self_prediction \in WrapPredictions(K)
    /\ tiou_thresholds \in UNION { [0..(m-1) -> LiveThr] : m \in 1..MaxThr }
    /\ subset = Val /\ blocked_videos = <<>> /\ data = <<>>
    /\ cidx = 0 /\ lists = <<>> /\ vnum = 0 /\ anum = 0
    /\ cpos = 0 /\ w_ap = <<>> /\ w_tdiff = <<>> /\ w_cnt_tp = <<>>
    /\ final_tdiff = <<>> /\ self_ap = <<>> /\ self_tdiff = <<>>
    /\ NoCall
    /\ MainIdle

Classes == 0..(Len(activity_index) - 1)

\* lines 147-149: the three zero matrices
WrapStart ==
    /\ pc = "wrap"
    /\ w_ap' = [t \in DOMAIN tiou_thresholds |-> [c \in Classes |-> <<0, 1>>]]
    /\ w_tdiff' = ZeroMatrix(DOMAIN tiou_thresholds, Classes)
    /\ w_cnt_tp' = ZeroMatrix(DOMAIN tiou_thresholds, Classes)
    /\ cpos' = 0
    /\ pc' = "wrap_class"
    /\ UNCHANGED <<idx, tiou_thresholds, callVars, loadVars,
                   final_tdiff, self_ap, self_tdiff, mainVars>>

\* lines 151-157: the next item of activity_index.items(), the call of
\* compute_average_precision_detection with the rows of its class
WrapCall ==
    /\ pc = "wrap_class"
    /\ cpos < Len(activity_index)
    /\ ground_truth' = ClassRows(self_ground_truth, activity_index[cpos + 1].val)
    /\ prediction' = ClassRows(self_prediction, activity_index[cpos + 1].val)
    /\ idx' = 0
    /\ pc' = "start"
    /\ UNCHANGED <<tiou_thresholds, sort_idx, lock_gt, tp, fp, timediff,
                   ap, tdiff, cnt_tp, walked, solo>>
    /\ UNCHANGED <<objVars, mainVars>>

\* line 154: the returned vectors stored in column cidx; the callee's frame
\* is gone
WrapCollect ==
    /\ pc = "done"
    /\ LET c == activity_index[cpos + 1].val
       IN  /\ w_ap' = [t \in DOMAIN w_ap |-> [w_ap[t] EXCEPT ![c] = ap[t]]]
           /\ w_tdiff' = [t \in DOMAIN w_tdiff |->
                            [w_tdiff[t] EXCEPT ![c] = tdiff[t]]]
           /\ w_cnt_tp' = [t \in DOMAIN w_cnt_tp |->
                             [w_cnt_tp[t] EXCEPT ![c] = cnt_tp[t]]]
    /\ cpos' = cpos + 1
    /\ idx' = 0
    /\ ground_truth' = <<>> /\ prediction' = <<>> /\ sort_idx' = <<>>
    /\ lock_gt' = <<>> /\ tp' = <<>> /\ fp' = <<>> /\ timediff' = <<>>
    /\ ap' = <<>> /\ tdiff' = <<>> /\ cnt_tp' = <<>>
    /\ walked' = <<>> /\ solo' = <<>>
    /\ pc' = "wrap_class"
    /\ UNCHANGED <<tiou_thresholds, loadVars, final_tdiff, self_ap, self_tdiff,
                   mainVars>>

\* lines 159-170: the latency per threshold over all classes
WrapReturn ==
    /\ pc = "wrap_class"
    /\ cpos = Len(activity_index)
    /\ final_tdiff' = [t \in DOMAIN tiou_thresholds |->
                         FinalTdiff(SumClasses(w_tdiff[t]), SumClasses(w_cnt_tp[t]))]
    /\ pc' = "wrap_return"
    /\ UNCHANGED <<idx, tiou_thresholds, callVars, loadVars, cpos,
                   w_ap, w_tdiff, w_cnt_tp, self_ap, self_tdiff, mainVars>>

\* line 177: self.ap, self.tdiff = self.wrapper_compute_average_precision()
StoreMetrics ==
    /\ pc = "wrap_return"
    /\ self_ap' = w_ap
    /\ self_tdiff' = final_tdiff
    /\ pc' = "evaluated"
    /\ UNCHANGED <<idx, tiou_thresholds, callVars, loadVars, cpos,
                   w_ap, w_tdiff, w_cnt_tp, final_tdiff, mainVars>>

NextWrap ==
    \/ WrapStart \/ WrapCall \/ WrapCollect \/ WrapReturn \/ StoreMetrics
    \/ ReturnEmpty \/ SortAndInit \/ MatchNoGroup \/ MatchGroup \/ Aggregate

SpecWrap == InitWrap /\ [][NextWrap]_vars

\* the constructor, then evaluate()
NextLoad ==
    \/ Construct
    \/ GtOpen \/ GtSkipVideo \/ GtAnnotation \/ GtNextVideo \/ GtReturn
    \/ PredOpen \/ PredSkipVideo \/ PredResult \/ PredNextVideo \/ PredReturn
    \/ NextWrap

SpecLoad == InitLoad /\ [][NextLoad]_vars

(* ------------------- claims about the wrapper -------------------------- *)
\* the sum of a matrix row over all classes
RECURSIVE RowTotal(_, _)
RowTotal(row, n) == IF n = 0 THEN 0 ELSE row[n - 1] + RowTotal(row, n - 1)

Returned == pc \in {"wrap_return", "evaluated"}

\* C28: for each threshold the wrapper reports the sum over all classes of
\* the true-positive latency sums divided by the number of true positives of
\* all classes, and exactly 0 when no class has a true positive there; the
\* divisor of the reported quotient is never 0, and evaluate stores the
\* vector as it is.
C28_WrapperLatency ==
    /\ Returned =>
          \A t \in DOMAIN tiou_thresholds :
              LET s == RowTotal(w_tdiff[t], Len(activity_index))
                  n == RowTotal(w_cnt_tp[t], Len(activity_index))
              IN  /\ final_tdiff[t][2] # 0
                  /\ n > 0 => final_tdiff[t] = <<s, n>>
                  /\ n = 0 => final_tdiff[t] = <<0, 1>>
    /\ pc = "evaluated" => self_tdiff = final_tdiff

C28_Witness ==
    /\ pc = "evaluated"
    /\ Len(activity_index) = 2
    /\ \E t \in DOMAIN tiou_thresholds :
          /\ w_cnt_tp[t][0] > 0 /\ w_cnt_tp[t][1] > 0
          /\ w_tdiff[t][0] # 0 /\ w_tdiff[t][1] # 0
          /\ self_tdiff[t][1] # 0
    /\ \E t \in DOMAIN tiou_thresholds :
          RowTotal(w_cnt_tp[t], Len(activity_index)) = 0

\* the rows of a data frame whose label is c, renumbered in their order
RowsOf(table, c) == { i \in DOMAIN table : table[i].label = c }
OnlyClass(table, c) ==
    [k \in 0..(Cardinality(RowsOf(table, c)) - 1) |->
        table[CHOOSE i \in RowsOf(table, c) :
                  Cardinality({ j \in RowsOf(table, c) : j < i }) = k]]

InCall == pc \in {"start", "match", "done"}

\* C26: the evaluation of a class sees the ground-truth and prediction rows
\* of that class only and starts from no earlier state; a lock always joins
\* an instance and a prediction of the class under evaluation; storing a
\* class's results writes that class's column and leaves the columns of all
\* other classes as they are.
C26_ClassIsolated ==
    /\ [](InCall =>
            LET c == activity_index[cpos + 1].val
            IN  /\ ground_truth = OnlyClass(self_ground_truth, c)
                /\ prediction = OnlyClass(self_prediction, c)
                /\ pc = "start" =>
                      /\ sort_idx = <<>> /\ lock_gt = <<>> /\ tp = <<>>
                      /\ fp = <<>> /\ timediff = <<>>
                /\ pc = "match" =>
                      \A t \in DOMAIN lock_gt : \A g \in DOMAIN lock_gt[t] :
                          lock_gt[t][g] >= 0 =>
                              /\ ground_truth[g].label = c
                              /\ sorted_prediction[lock_gt[t][g]].label = c)
    /\ [][pc = "done" =>
            LET c == activity_index[cpos + 1].val
            IN  \A t \in DOMAIN tiou_thresholds :
                    /\ w_ap'[t][c] = ap[t]
                    /\ w_tdiff'[t][c] = tdiff[t]
                    /\ w_cnt_tp'[t][c] = cnt_tp[t]
                    /\ \A o \in Classes \ {c} :
                          /\ w_ap'[t][o] = w_ap[t][o]
                          /\ w_tdiff'[t][o] = w_tdiff[t][o]
                          /\ w_cnt_tp'[t][o] = w_cnt_tp[t][o]]_vars

\* the second class returns with a lock, the first class has stored a true
\* positive, and the rows of the two classes are interleaved in the frame
C26_Witness ==
    /\ pc = "done"
    /\ cpos = 1
    /\ Len0(self_prediction) = 2
    /\ self_prediction[0].label = 1 /\ self_prediction[1].label = 0
    /\ \E t \in DOMAIN lock_gt : \E g \in DOMAIN lock_gt[t] : lock_gt[t][g] >= 0
    /\ \E t \in DOMAIN w_cnt_tp : w_cnt_tp[t][0] > 0

(* ------------------- claims about the loaders -------------------------- *)
\* the records of a file's videos
RecordsOf(v) == IF "annotations" \in DOMAIN v THEN v.annotations ELSE v.results

\* the records the two nested loops have passed when they stand at video vn,
\* record an: all records of the videos before vn and the records before an
\* of video vn, each with its video, in file order
RECURSIVE FlatUpTo(_, _, _, _)
FlatUpTo(videos, n, vn, an) ==
    IF n = 0 THEN <<>>
    ELSE FlatUpTo(videos, n - 1, vn, an)
         \o [k \in 1..(IF n < vn THEN Len(RecordsOf(videos[n]))
                       ELSE IF n = vn
                              THEN Min2(an - 1, Len(RecordsOf(videos[n])))
                              ELSE 0) |->
               [v |-> videos[n], rec |-> RecordsOf(videos[n])[k]]]

Passed(videos) == FlatUpTo(videos, Len(videos), vnum, anum)
Whole(videos) == FlatUpTo(videos, Len(videos), Len(videos) + 1, 1)

\* the class index the ground-truth load gave a label
ClassOf(label) ==
    CHOOSE c \in 0..Len(activity_index) :
        [key |-> label, val |-> c] \in { activity_index[i] : i \in DOMAIN activity_index }

KeepPrediction(x) ==
    /\ x.v.videoid \notin { blocked_videos[i] : i \in DOMAIN blocked_videos }
    /\ x.rec.label \in { activity_index[i].key : i \in DOMAIN activity_index }

PredictionRow(x) ==
    [video |-> x.v.videoid, ts |-> x.rec.segment[1], te |-> x.rec.segment[2],
     label |-> ClassOf(x.rec.label), score |-> x.rec.score,
     gentime |-> Finite(x.rec.gentime)]

PredictionRows(flat) ==
    LET kept == SelectSeq(flat, KeepPrediction)
    IN  [k \in DOMAIN kept |-> PredictionRow(kept[k])]

\* C22: at every point of the prediction load the rows collected are, in
\* file order, exactly the records passed whose video is not blocked and
\* whose label the ground-truth load indexed, each with that class index;
\* the load ends only by returning all such records of the file as
\* self.prediction, never by an error.
C22_PredictionLoaded ==
    /\ [](pc = "pred_loop" => lists = PredictionRows(Passed(data["results"])))
    /\ [][pc = "pred_loop" /\ pc' # "pred_loop" =>
            /\ pc' = "wrap"
            /\ self_prediction' = Arr(PredictionRows(Whole(data["results"])))]_vars

\* the loop is through a file whose first video is blocked and whose second
\* video has a record of an unknown label before a record of class 1
C22_Witness ==
    /\ pc = "pred_loop"
    /\ blocked_videos = <<"v1">>
    /\ Len(data["results"]) = 2 /\ vnum = 3
    /\ Len(data["results"][1].results) = 2
    /\ Len(data["results"][2].results) = 2
    /\ data["results"][2].results[1].label = "c"
    /\ data["results"][2].results[2].label = "b"
    /\ Len(lists) = 1 /\ lists[1].label = 1 /\ lists[1].video = "v2"

\* the subset field matches the requested subset: equal to it if a string,
\* holding it as an element if a list
SubsetMatches(s, field) ==
    IF field.kind = "str" THEN field.val = <<s>>
    ELSE s \in { field.val[i] : i \in DOMAIN field.val }

RowsOfVideo(videoid) == { i \in DOMAIN lists : lists[i].video = videoid }

\* C23: of every video the ground-truth loop has passed, all annotations are
\* loaded if its subset field matches the requested subset, and none
\* otherwise.
C23_SubsetMatch ==
    pc = "gt_loop" =>
        \A n \in 1..Len(data["database"]) :
            n < vnum =>
                LET v == data["database"][n]
                IN  IF SubsetMatches(subset, v.subset)
                      THEN Cardinality(RowsOfVideo(v.videoid)) = Len(v.annotations)
                      ELSE RowsOfVideo(v.videoid) = {}

\* the labels of the annotations loaded so far, in the order of loading
LoadedLabels ==
    LET flat == Passed(data["database"])
        S == { k \in DOMAIN flat : PyIn(subset, flat[k].v.subset) }
    IN  [k \in S |-> flat[k].rec.label]

FirstSeen(labels, l) == CHOOSE k \in DOMAIN labels :
    labels[k] = l /\ \A j \in DOMAIN labels : labels[j] = l => k <= j

\* C24: the index holds exactly the labels loaded so far, the i-th of them
\* in first-seen order with class index i - 1, so distinct labels have
\* distinct indices and the indices are 0..K-1; the counter is K; an entry
\* of the index never changes; the counter and the index returned are those
\* of the whole load.
C24_FirstSeenOrder ==
    /\ [](pc = "gt_loop" =>
            LET labels == LoadedLabels
                seen == { labels[k] : k \in DOMAIN labels }
            IN  /\ { activity_index[i].key : i \in DOMAIN activity_index } = seen
                /\ Len(activity_index) = Cardinality(seen)
                /\ cidx = Cardinality(seen)
                /\ \A i \in DOMAIN activity_index : activity_index[i].val = i - 1
                /\ \A i, j \in DOMAIN activity_index :
                      i < j => FirstSeen(labels, activity_index[i].key)
                                 < FirstSeen(labels, activity_index[j].key))
    /\ [](cidx = Len(activity_index))
    /\ [][/\ Len(activity_index) <= Len(activity_index')
          /\ \A i \in DOMAIN activity_index :
                activity_index'[i] = activity_index[i]]_vars

\* the load returned: label "b" was seen first, then "a", then "b" again
C24_Witness ==
    /\ pc = "pred_open"
    /\ cidx = 2
    /\ activity_index = << [key |-> "b", val |-> 0], [key |-> "a", val |-> 1] >>
    /\ Len0(self_ground_truth) = 3
    /\ self_ground_truth[0].label = 0
    /\ self_ground_truth[1].label = 1
    /\ self_ground_truth[2].label = 0

\* C25: a file is read past its check only with all its required keys; after
\* the error no record was read, there is no object and no metric, and
\* nothing follows; a metric exists only for a constructed object.
C25_FailFast ==
    /\ [](pc = "gt_loop" => "database" \in DOMAIN data)
    /\ [](pc = "pred_loop" =>
            {"results", "version", "external_data"} \subseteq DOMAIN data)
    /\ [](pc = "raised" =>
            /\ evaluator = "none"
            /\ lists = <<>> /\ vnum = 0 /\ anum = 0
            /\ w_ap = <<>> /\ final_tdiff = <<>>
            /\ self_ap = <<>> /\ self_tdiff = <<>>)
    /\ [](w_ap # <<>> \/ self_ap # <<>> \/ self_tdiff # <<>> =>
            evaluator = "built")
    /\ [][pc # "raised"]_vars

\* the prediction file has records but lacks 'version'; the ground truth
\* was loaded before
C25_Witness ==
    /\ pc = "raised"
    /\ Len0(self_ground_truth) > 0
    /\ "results" \in DOMAIN data /\ "version" \notin DOMAIN data
    /\ Len(data["results"]) > 0

====
